---- MODULE Spec2Model ----
(***************************************************************************)
(* Block-sparse symmetric tensor contractions of yastn                     *)
(* (src/yastn/tensor/_contractions.py): the structural (metadata) part of  *)
(* tensordot, trace, broadcast, apply_mask, vdot, swap_gate, the planners  *)
(* of ncon and einsum, and the memoization of the metadata functions.      *)
(*                                                                         *)
(* Python tuples are TLA+ sequences; Python positions are 0-based and are  *)
(* kept 0-based here (position i of a tuple x is x[i + 1]).                *)
(***************************************************************************)
EXTENDS Integers, Sequences, FiniteSets, TLC

VARIABLES
    pc,      \* "call" before the operation ran, "done" / "error" after it
    op,      \* the operation the inputs were drawn for
    a,       \* first operand (tensor)
    b,       \* second operand (tensor), unused by trace
    axes,    \* the axes argument: <<axes[0], axes[1]>>
    res,     \* what the operation returned or raised
    aux,     \* what the helper functions returned during the call, in call order
    inds,    \* ncon: labels of the legs of every tensor
    conj,    \* tensordot: the conjugation flags of the two operands
    conjs,   \* ncon: conjugation flag of every tensor
    plan,    \* ncon: what _meta_ncon returned or raised
    subscripts, \* einsum: the subscripts, a tuple of characters
    operands,   \* einsum: the number of legs of every operand
    orderArg,   \* einsum: the argument order, None for 'Alphabetic'
    config,  \* swap_gate: the field fermionic of the configuration of a
    heap,    \* the data buffers (_data) of the tensors that exist
    memo,    \* lru_cache: the cache of a memoized function and the calls made
    lattice, \* SquareLattice: the fields of the lattice that was constructed
    mpo,     \* generate_product_mpo: the MPO I, the term and the copy being built
    walk,    \* vdot: the variables of the loop over the blocks of a and b
    targets  \* broadcast, apply_mask: the tensors in args, axes, and what was returned

vars ==
    <<pc, op, a, b, axes, conj, res, aux, inds, conjs, plan, subscripts, operands, orderArg,
      config, heap, memo, lattice, mpo, walk, targets>>

(***************************************************************************)
(* Python built-ins                                                        *)
(***************************************************************************)
\* a local name: F applied to the value v (v is computed once)
With(v, F(_)) == F(v)

Min(x, y) == IF x <= y THEN x ELSE y

Max(x, y) == IF x >= y THEN x ELSE y

\* range(n) as a tuple
PyRange(n) == [i \in 1..n |-> i - 1]

\* set(x)
ToSet(x) == {x[i] : i \in 1..Len(x)}

\* x[lo:hi] for 0 <= lo (a slice never raises: it is clipped to the tuple)
PySlice(x, lo, hi) ==
    IF lo >= Min(hi, Len(x)) THEN <<>> ELSE [i \in 1..(Min(hi, Len(x)) - lo) |-> x[lo + i]]

\* x[:i] + (v,) + x[i+1:]
PyReplaceAt(x, i, v) == PySlice(x, 0, i) \o <<v>> \o PySlice(x, i + 1, Len(x))

RECURSIVE SumSeq(_)
SumSeq(x) == IF x = <<>> THEN 0 ELSE Head(x) + SumSeq(Tail(x))

RECURSIVE ProdSeq(_)
ProdSeq(x) == IF x = <<>> THEN 1 ELSE Head(x) * ProdSeq(Tail(x))

\* np.cumsum
CumSum(x) == [i \in 1..Len(x) |-> SumSeq(SubSeq(x, 1, i))]

RECURSIVE Concat(_)
Concat(xs) == IF xs = <<>> THEN <<>> ELSE Head(xs) \o Concat(Tail(xs))

\* tuple(x[i] for i in idx)
Pick(x, idx) == [k \in 1..Len(idx) |-> x[idx[k] + 1]]

\* tuple(x for x in xs if x in keep), for a sequence xs and a test set
RECURSIVE FilterIn(_, _)
FilterIn(xs, keep) ==
    IF xs = <<>> THEN <<>>
    ELSE (IF Head(xs) \in keep THEN <<Head(xs)>> ELSE <<>>) \o FilterIn(Tail(xs), keep)

\* Python's order on tuples of integers: lexicographic, a proper prefix first
RECURSIVE LexLess(_, _)
LexLess(x, y) ==
    IF y = <<>> THEN FALSE
    ELSE IF x = <<>> THEN TRUE
    ELSE IF Head(x) # Head(y) THEN Head(x) < Head(y)
    ELSE LexLess(Tail(x), Tail(y))

\* insert item e, a record with an integer-tuple field k, behind every item
\* whose key is not larger: repeated insertion is a stable sort, as sorted() is
RECURSIVE InsertByKey(_, _)
InsertByKey(xs, e) ==
    IF xs = <<>> THEN <<e>>
    ELSE IF LexLess(e.k, Head(xs).k) THEN <<e>> \o xs
    ELSE <<Head(xs)>> \o InsertByKey(Tail(xs), e)

\* sorted(xs, key=lambda x: x.k)
RECURSIVE SortByKey(_)
SortByKey(xs) ==
    IF xs = <<>> THEN <<>>
    ELSE InsertByKey(SortByKey(SubSeq(xs, 1, Len(xs) - 1)), xs[Len(xs)])

\* the smallest of a non-empty finite set of integer tuples
LexMin(S) == CHOOSE x \in S : \A y \in S : y = x \/ LexLess(x, y)

\* the elements of a finite set of integer tuples, ascending
RECURSIVE SortSet(_)
SortSet(S) == IF S = {} THEN <<>> ELSE <<LexMin(S)>> \o SortSet(S \ {LexMin(S)})

\* strictly ascending: sorted without a repeated element
StrictlySorted(ts) == \A i \in 1..(Len(ts) - 1) : LexLess(ts[i], ts[i + 1])

(***************************************************************************)
(* Tensors.  A tensor is a record                                          *)
(*   struct  s: signatures of the native legs; n: total charge, one        *)
(*           integer per symmetry generator; diag; t: charge tuples of the *)
(*           blocks, each flat (leg by leg, nsym integers per leg);        *)
(*           D: dimensions of the blocks, one integer per leg; size:       *)
(*           length of the flat data buffer                                *)
(*   slices  one record per block: slcs = <<start, stop>>, D, Dp           *)
(*   mfs     meta-fusion tree of every (meta) leg; <<1>> is a native leg   *)
(*   hfs     hard-fusion descriptor of every native leg: tree, the fused   *)
(*           sectors fD, and leg, which names the leg it describes         *)
(*   isdiag  the diagonal flag                                             *)
(*   data    the flat buffer                                               *)
(***************************************************************************)
NoStruct == [s |-> <<>>, n |-> <<>>, diag |-> FALSE, t |-> <<>>, D |-> <<>>, size |-> 0]

NoTensor ==
    [struct |-> NoStruct, slices |-> <<>>, mfs |-> <<>>, hfs |-> <<>>, isdiag |-> FALSE,
     data |-> <<>>]

\* number of native legs (ndim_n) and of meta legs (ndim)
NdimN(x) == Len(x.struct.s)

Ndim(x) == Len(x.mfs)

\* the charge of leg ax in the flat charge tuple t: t[ax * nsym: (ax + 1) * nsym]
ChargeAt(t, ax, nsym) == PySlice(t, ax * nsym, (ax + 1) * nsym)

\* _slc(((stop - dp, stop),), ds, dp) for the cumulated stops cum
SlicesAt(cum, Dp, D) ==
    [i \in 1..Min(Len(Dp), Len(D)) |->
        [slcs |-> <<cum[i] - Dp[i], cum[i]>>, D |-> D[i], Dp |-> Dp[i]]]

\* tuple(_slc(((stop - dp, stop),), ds, dp) for stop, dp, ds in zip(np.cumsum(Dp), Dp, D))
SlicesFromCumsum(Dp, D) == SlicesAt(CumSum(Dp), Dp, D)

\* sym.fuse for U(1)^nsym: the signed sum of the charges, times the new signature
Fuse(charges, sigs, newsig, nsym) ==
    [k \in 1..nsym |->
        newsig * SumSeq([i \in 1..Len(charges) |-> sigs[i] * charges[i][k]])]

\* the charges of the legs listed in legs, and their concatenation
ChargesOn(t, legs, nsym) == [k \in 1..Len(legs) |-> ChargeAt(t, legs[k], nsym)]

SubTuple(t, legs, nsym) == Concat(ChargesOn(t, legs, nsym))

\* an optional tuple of indices: None, or the tuple v
None == [none |-> TRUE, v |-> <<>>]

Some(v) == [none |-> FALSE, v |-> v]

(***************************************************************************)
(* Results.  An operation returns a tensor or raises an error; aux lists   *)
(* what the helper functions returned on the way.                          *)
(***************************************************************************)
Returned(x, log) == [kind |-> "tensor", msg |-> "", ten |-> x, aux |-> log]

Raised(msg, log) == [kind |-> "error", msg |-> msg, ten |-> NoTensor, aux |-> log]

NoResult == [kind |-> "none", msg |-> "", ten |-> NoTensor]

\* the entry of aux for a call of a _meta_ function that returned m
MetaCall(fn, m) == [fn |-> fn, struct |-> m.struct, slices |-> m.slices]

(***************************************************************************)
(* The field fermionic of a configuration is False, True, or a tuple of    *)
(* flags, one per symmetry generator.                                      *)
(***************************************************************************)
NotFermionic == [is_bool |-> TRUE, val |-> FALSE, flags |-> <<>>]

AllFermionic == [is_bool |-> TRUE, val |-> TRUE, flags |-> <<>>]

FermionicFlags(flags) == [is_bool |-> FALSE, val |-> FALSE, flags |-> flags]

(***************************************************************************)
(* The buffers.  bufs lists the _data arrays that exist: bufs[1] is the    *)
(* array of a, bufs[2] the array of b, the later ones are arrays made      *)
(* during the calls; res is the position of the array of the returned      *)
(* tensor, 0 while there is none.                                          *)
(***************************************************************************)
NoHeap == [bufs |-> <<>>, res |-> 0]

\* no lattice was constructed, generate_product_mpo was not called
NoLattice ==
    [made |-> FALSE, raised |-> "", dims |-> <<0, 0>>, boundary |-> "", periodic |-> "",
     sites |-> <<>>, bonds_h |-> <<>>, bonds_v |-> <<>>, asked |-> <<>>, returned |-> <<>>]

\* neither broadcast nor apply_mask was called with a list of tensors
NoTargets == [args |-> <<>>, multiple_axes |-> FALSE, axes |-> <<>>, raised |-> "", single |-> FALSE, results |-> <<>>]

\* the loop of vdot is not followed
NoWalk ==
    [ta |-> <<>>, tb |-> <<>>, Da |-> <<>>, Db |-> <<>>, Dpa |-> <<>>, Dpb |-> <<>>,
     inter_sla |-> <<>>, inter_slb |-> <<>>, ia |-> 0, ib |-> 0, sla |-> <<>>, slb |-> <<>>,
     size_a |-> 0, size_b |-> 0]

NoMpo ==
    [I |-> 0, term |-> [amplitude |-> 1, positions |-> <<>>, operators |-> <<>>], amplitude |-> FALSE,
     store |-> <<>>, raised |-> "", msg |-> "", returned |-> 0]

\* no memoized function is followed
NoMemo == [fn |-> "", cache |-> <<>>, clock |-> 0, time |-> 0, lastUse |-> <<>>, evictions |-> 0,
           recalls |-> 0, last |-> <<>>]

HeapOf(x, y) == [bufs |-> <<x.data, y.data>>, res |-> 0]

\* the result r holds an array that a backend function made
Allocated(hp, r) ==
    IF r.kind = "tensor"
    THEN [bufs |-> Append(hp.bufs, r.ten.data), res |-> Len(hp.bufs) + 1]
    ELSE hp

\* the result is the object at position id itself
Aliased(hp, id) == [hp EXCEPT !.res = id]

\* a._replace(struct=..., slices=...)
WithStruct(x, struct, slices) == [x EXCEPT !.struct = struct, !.slices = slices, !.data = <<>>]

(***************************************************************************)
(* _common_inds                                                            *)
(***************************************************************************)
\* every index, whether the element is in sb or not
IndsInAll(la, sb) == PyRange(Len(la))

\* tuple(ii for ii, el in enumerate(la) if el in sb)
IndsIn(la, sb) == FilterIn(PyRange(Len(la)), {ii \in 0..(Len(la) - 1) : la[ii + 1] \in sb})

\* la = [tuple(x.flat) for x in t_a[:, nin_a, :]]
ContractedCharges(ts, nin, nsym) == [i \in 1..Len(ts) |-> SubTuple(ts[i], nin, nsym)]

\* if len(ia) == len(la): ia = None
NoneIfAll(ia, la) == IF Len(ia) = Len(la) THEN None ELSE Some(ia)

CommonIndsOf(la, lb) ==
    [ia |-> NoneIfAll(IndsIn(la, ToSet(lb)), la),
     ib |-> NoneIfAll(IndsIn(lb, ToSet(la)), lb)]

CommonInds(t_a, t_b, nin_a, nin_b, nsym) ==
    CommonIndsOf(ContractedCharges(t_a, nin_a, nsym), ContractedCharges(t_b, nin_b, nsym))

(***************************************************************************)
(* Merging a tensor into a block matrix and back (_merging.py):            *)
(* the legs in left become the row leg, the legs in right the column leg.  *)
(***************************************************************************)
\* the blocks a merge keeps: all of them, or those listed in ind
KeptBlocks(x, ind) == IF ind.none THEN PyRange(Len(x.struct.t)) ELSE ind.v

\* the effective charge of the legs in legs of the block with charges t
EffCharge(x, t, legs, newsig) ==
    Fuse(ChargesOn(t, legs, Len(x.struct.n)), Pick(x.struct.s, legs), newsig, Len(x.struct.n))

\* the leg structure of a merged leg: for every kept block, the effective
\* (fused) charge te of the legs, their charges sub and their dimensions D
LegStruct(x, legs, newsig, ind) ==
    {[te  |-> EffCharge(x, x.struct.t[i + 1], legs, newsig),
      sub |-> SubTuple(x.struct.t[i + 1], legs, Len(x.struct.n)),
      D   |-> Pick(x.struct.D[i + 1], legs)] : i \in ToSet(KeptBlocks(x, ind))}

\* the total dimension of the charge tuples subs of effective charge te
SumOfDims(ls, te, subs) ==
    SumSeq([i \in 1..Len(subs) |->
        ProdSeq((CHOOSE e \in ls : e.te = te /\ e.sub = subs[i]).D)])

\* the dimension of effective charge te of a merged leg: the charge tuples
\* fused into te are laid out one after another
EffDim(ls, te) == SumOfDims(ls, te, SortSet({e.sub : e \in {e \in ls : e.te = te}}))

\* the charges of the blocks of the matrix, sorted
MergedCharges(x, left, right, ind) ==
    SortSet({EffCharge(x, x.struct.t[i + 1], left, 1) \o EffCharge(x, x.struct.t[i + 1], right, -1)
             : i \in ToSet(KeptBlocks(x, ind))})

\* the dimensions of the blocks of the matrix
MergedDims(tm, ls0, ls1, nsym) ==
    [i \in 1..Len(tm) |->
        <<EffDim(ls0, PySlice(tm[i], 0, nsym)), EffDim(ls1, PySlice(tm[i], nsym, 2 * nsym))>>]

\* the struct of a matrix with blocks tm of dimensions Dm and slice lengths Dp
MatrixStruct(n, tm, Dm, Dp) ==
    [struct |-> [s |-> <<1, -1>>, n |-> n, diag |-> FALSE, t |-> tm, D |-> Dm, size |-> SumSeq(Dp)],
     slices |-> SlicesFromCumsum(Dp, Dm)]

MatrixOf(n, tm, Dm, ls0, ls1) ==
    [m |-> MatrixStruct(n, tm, Dm, [i \in 1..Len(Dm) |-> Dm[i][1] * Dm[i][2]]),
     ls0 |-> ls0, ls1 |-> ls1]

MergeWith(x, tm, ls0, ls1) ==
    MatrixOf(x.struct.n, tm, MergedDims(tm, ls0, ls1, Len(x.struct.n)), ls0, ls1)

\* _merge_to_matrix: struct and slices of the block matrix (m), and the leg
\* structures of its row and column legs
MergeToMatrix(x, left, right, ind) ==
    MergeWith(x, MergedCharges(x, left, right, ind),
              LegStruct(x, left, 1, ind), LegStruct(x, right, -1, ind))

\* the blocks of an unmerged matrix: every matrix block splits into the
\* charge tuples its row and column legs were fused from
UnmergedBlocks(struct, ls_l, ls_r) ==
    {[k |-> p[1].sub \o p[2].sub, D |-> p[1].D \o p[2].D] :
        p \in {q \in ls_l \X ls_r : \E i \in 1..Len(struct.t) : struct.t[i] = q[1].te \o q[2].te}}

\* the struct of a tensor with blocks tc of dimensions Dc and slice lengths Dp
DenseStruct(s, n, tc, Dc, Dp) ==
    [struct |-> [s |-> s, n |-> n, diag |-> FALSE, t |-> tc, D |-> Dc, size |-> SumSeq(Dp)],
     slices |-> SlicesFromCumsum(Dp, Dc)]

\* the sorted blocks of the set blocks, every slice as long as its block
StructOfBlocks(s, n, blocks, tc) ==
    With([i \in 1..Len(tc) |-> (CHOOSE e \in blocks : e.k = tc[i]).D],
         LAMBDA Dc : DenseStruct(s, n, tc, Dc, [i \in 1..Len(tc) |-> ProdSeq(Dc[i])]))

SortedBlocks(s, n, blocks) == StructOfBlocks(s, n, blocks, SortSet({e.k : e \in blocks}))

\* _meta_unmerge_matrix: struct and slices of the unmerged tensor
MetaUnmergeMatrix(struct, ls_l, ls_r, s_c) ==
    SortedBlocks(s_c, struct.n, UnmergedBlocks(struct, ls_l, ls_r))

(***************************************************************************)
(* _meta_tensordot                                                         *)
(***************************************************************************)
\* the total charge of the first tensor alone
FusedNFirst(n_a, n_b) == n_a

\* n_c = sym.fuse((struct_a.n, struct_b.n), (1, 1), 1)
FusedN(n_a, n_b) == Fuse(<<n_a, n_b>>, <<1, 1>>, 1, Len(n_a))

\* the charge tuple of a product block: ta[:nsym] + tb[nsym:]
ProductT(ta, tb, nsym) == PySlice(ta, 0, nsym) \o PySlice(tb, nsym, Len(tb))

\* struct_a_resorted: (t[nsym:], t, D, sl.slcs[0]) for the blocks of a, sorted
ResortedA(struct_a, slices_a, nsym) ==
    SortByKey([i \in 1..Min(Min(Len(struct_a.t), Len(struct_a.D)), Len(slices_a)) |->
        [k |-> PySlice(struct_a.t[i], nsym, Len(struct_a.t[i])) \o struct_a.t[i]
               \o struct_a.D[i] \o slices_a[i].slcs,
         tar |-> PySlice(struct_a.t[i], nsym, Len(struct_a.t[i])),
         ta |-> struct_a.t[i], Da |-> struct_a.D[i], sla |-> slices_a[i].slcs]])

\* struct_b_resorted: (t[:nsym], t, D, sl.slcs[0]) for the blocks of b
ResortedB(struct_b, slices_b, nsym) ==
    [i \in 1..Min(Min(Len(struct_b.t), Len(struct_b.D)), Len(slices_b)) |->
        [tbl |-> PySlice(struct_b.t[i], 0, nsym),
         tb |-> struct_b.t[i], Db |-> struct_b.D[i], slb |-> slices_b[i].slcs]]

\* the entries of meta before sorted(meta): the two lists zipped
ZipPairs(ra, rb, nsym) ==
    [i \in 1..Min(Len(ra), Len(rb)) |->
        [k |-> ProductT(ra[i].ta, rb[i].tb, nsym) \o <<ra[i].Da[1], rb[i].Db[2]>>
               \o ra[i].sla \o ra[i].Da \o rb[i].slb \o rb[i].Db \o ra[i].tar \o rb[i].tbl,
         t |-> ProductT(ra[i].ta, rb[i].tb, nsym),
         D |-> <<ra[i].Da[1], rb[i].Db[2]>>,
         sla |-> ra[i].sla, Da |-> ra[i].Da, slb |-> rb[i].slb, Db |-> rb[i].Db,
         tar |-> ra[i].tar, tbl |-> rb[i].tbl]]

DotPairs(struct_a, slices_a, struct_b, slices_b) ==
    ZipPairs(ResortedA(struct_a, slices_a, Len(struct_a.n)),
             ResortedB(struct_b, slices_b, Len(struct_a.n)), Len(struct_a.n))

\* struct_c and slices_c of the sorted meta, and meta with the new slices
DotStruct(s_c, n_c, meta, D_c, Dp_c) ==
    With(SlicesFromCumsum(Dp_c, D_c),
         LAMBDA slices_c :
            [meta |-> [i \in 1..Len(meta) |->
                        [sl |-> slices_c[i].slcs, D |-> meta[i].D, sla |-> meta[i].sla,
                         Da |-> meta[i].Da, slb |-> meta[i].slb, Db |-> meta[i].Db]],
             struct |-> [s |-> s_c, n |-> n_c, diag |-> FALSE,
                         t |-> [i \in 1..Len(meta) |-> meta[i].t], D |-> D_c, size |-> SumSeq(Dp_c)],
             slices |-> slices_c])

DotSorted(s_c, n_c, meta) ==
    DotStruct(s_c, n_c, meta, [i \in 1..Len(meta) |-> meta[i].D],
              [i \in 1..Len(meta) |-> meta[i].D[1] * meta[i].D[2]])

\* the assertion of line 114
DotAligned(pairs) == \A i \in 1..Len(pairs) : pairs[i].tar = pairs[i].tbl

MetaTensordotOf(s_c, n_c, pairs) ==
    [ok |-> DotAligned(pairs)] @@ DotSorted(s_c, n_c, SortByKey(pairs))

\* _meta_tensordot: ok is FALSE when the assertion tar == tbl fails; meta,
\* struct_c and slices_c
MetaTensordot(struct_a, slices_a, struct_b, slices_b) ==
    MetaTensordotOf(<<struct_a.s[1], struct_b.s[2]>>, FusedN(struct_a.n, struct_b.n),
                    DotPairs(struct_a, slices_a, struct_b, slices_b))

(***************************************************************************)
(* conj, _unpack_axes and _test_axes_match (tensor.py, _auxliary.py,       *)
(* _tests.py)                                                              *)
(***************************************************************************)
\* a.conj(): the signatures and the total charge change sign
Conj(x) ==
    [x EXCEPT !.struct.s = [i \in 1..Len(x.struct.s) |-> -x.struct.s[i]],
              !.struct.n = [i \in 1..Len(x.struct.n) |-> -x.struct.n[i]]]

\* a.conj() if the flag is set
ConjIf(flag, x) == IF flag = 1 THEN Conj(x) ELSE x

\* the native legs of the meta legs listed in ax: meta leg i holds mf[i][0]
\* consecutive native legs
UnpackAxes(mf, ax) ==
    Concat([k \in 1..Len(ax) |->
        [i \in 1..mf[ax[k] + 1][1] |-> SumSeq([j \in 1..ax[k] |-> mf[j][1]]) + i - 1]])

\* the message _test_axes_match raises, "" when it raises nothing
AxesError(x, y, sgn, ax, ua, ub) ==
    IF Len(ax[1]) # Len(ax[2])
    THEN "axes[0] and axes[1] indicated different number of legs."
    ELSE IF Cardinality(ToSet(ax[1])) # Len(ax[1]) \/ Cardinality(ToSet(ax[2])) # Len(ax[2])
    THEN "Repeated axis in axes[0] or axes[1]."
    ELSE IF \E k \in 1..Min(Len(ua), Len(ub)) : x.struct.s[ua[k] + 1] # sgn * y.struct.s[ub[k] + 1]
    THEN "Signatures do not match."
    ELSE IF \E k \in 1..Len(ax[1]) : x.mfs[ax[1][k] + 1] # y.mfs[ax[2][k] + 1]
    THEN "Indicated axes of two tensors have different number of meta-fused legs or sub-fusions order."
    ELSE IF \E k \in 1..Min(Len(ua), Len(ub)) : x.hfs[ua[k] + 1].tree # y.hfs[ub[k] + 1].tree
    THEN "Indicated axes of two tensors have different number of hard-fused legs or sub-fusions order."
    ELSE ""

\* the hard-fusion histories of two matched legs differ
NeedsMask(x, y, ua, ub) ==
    \E k \in 1..Min(Len(ua), Len(ub)) : x.hfs[ua[k] + 1].fD # y.hfs[ub[k] + 1].fD

AxesMatchOf(x, y, sgn, ax, ua, ub) ==
    [err |-> AxesError(x, y, sgn, ax, ua, ub),
     needs_mask |-> NeedsMask(x, y, ua, ub),
     nin_a |-> ua,
     nin_b |-> ub]

\* _test_axes_match(a, b, sgn, axes): err # "" when it raises, else needs_mask
\* and the native legs of the two groups of axes
TestAxesMatch(x, y, sgn, ax) ==
    AxesMatchOf(x, y, sgn, ax, UnpackAxes(x.mfs, ax[1]), UnpackAxes(y.mfs, ax[2]))

(***************************************************************************)
(* _meta_broadcast                                                         *)
(***************************************************************************)
\* sl_a = dict(zip(ind_ta, a_slices)); sl_a[ib]: the last entry of a key wins
DictLast(keys, vals, key) ==
    vals[CHOOSE i \in 1..Min(Len(keys), Len(vals)) :
            /\ keys[i] = key
            /\ \A j \in 1..Min(Len(keys), Len(vals)) : keys[j] = key => j <= i]

\* the positions (from 1) of the blocks of ts whose charge on axis is in keys
BlocksOn(ts, n, axis, nsym, keys) ==
    FilterIn([i \in 1..n |-> i], {i \in 1..n : ChargeAt(ts[i], axis, nsym) \in ToSet(keys)})

\* ind_ta = tuple(x[:nsym] for x in a_struct.t), as far as zip(ind_ta, a_slices) goes
FirstCharges(ts, slices, nsym) ==
    [i \in 1..Min(Len(ts), Len(slices)) |-> PySlice(ts[i], 0, nsym)]

BroadcastEntries(b_struct, b_slices, a_slices, axis, nsym, ind_ta, idx) ==
    [k \in 1..Len(idx) |->
        [tb |-> b_struct.t[idx[k]], slb |-> b_slices[idx[k]].slcs, Db |-> b_struct.D[idx[k]],
         Dp |-> b_slices[idx[k]].Dp,
         sla |-> DictLast(ind_ta, a_slices, ChargeAt(b_struct.t[idx[k]], axis, nsym)).slcs]]

\* the entries of meta: the blocks of b whose charge on axis is a charge of a
BroadcastMeta(b_struct, b_slices, a_struct, a_slices, axis) ==
    With(FirstCharges(a_struct.t, a_slices, Len(a_struct.n)),
         LAMBDA ind_ta :
            BroadcastEntries(b_struct, b_slices, a_slices, axis, Len(a_struct.n), ind_ta,
                BlocksOn(b_struct.t, Min(Min(Len(b_struct.t), Len(b_slices)), Len(b_struct.D)),
                         axis, Len(a_struct.n), ind_ta)))

\* the message of line 199, "" when nothing is raised
BroadcastError(meta, axis) ==
    IF \E i \in 1..Len(meta) : meta[i].Db[axis + 1] # meta[i].sla[2] - meta[i].sla[1]
    THEN "Bond dimensions do not match." ELSE ""

\* lines 201-209: the blocks of meta if some block of b was dropped, else b's
BroadcastStruct(b_struct, b_slices, meta, c_D, c_Dp) ==
    IF Len(meta) < Len(b_struct.t)
    THEN [struct |-> [b_struct EXCEPT !.t = [i \in 1..Len(meta) |-> meta[i].tb], !.D = c_D,
                                      !.size = SumSeq(c_Dp)],
          slices |-> SlicesFromCumsum(c_Dp, c_D)]
    ELSE [struct |-> b_struct, slices |-> b_slices]

MetaBroadcastOf(meta, axis, c) ==
    [err |-> BroadcastError(meta, axis),
     meta |-> [i \in 1..Min(Len(meta), Len(c.slices)) |->
                [sln |-> c.slices[i].slcs, slb |-> meta[i].slb, Db |-> meta[i].Db,
                 sla |-> meta[i].sla]],
     struct |-> c.struct,
     slices |-> c.slices]

\* _meta_broadcast: err # "" when it raises, else meta, c_struct and c_slices
MetaBroadcast(b_struct, b_slices, a_struct, a_slices, axis) ==
    With(BroadcastMeta(b_struct, b_slices, a_struct, a_slices, axis),
         LAMBDA meta :
            MetaBroadcastOf(meta, axis,
                BroadcastStruct(b_struct, b_slices, meta,
                                [i \in 1..Len(meta) |-> meta[i].Db],
                                [i \in 1..Len(meta) |-> meta[i].Dp])))

(***************************************************************************)
(* _meta_mask: a is the tensor that is masked, b the diagonal mask and     *)
(* Dbnew the number of nonzero elements of every block of b                *)
(***************************************************************************)
\* the positions (from 1) of all the blocks of b
LiveBlocksAll(nb, Dbnew) == [i \in 1..nb |-> i]

\* the positions (from 1) of the blocks of b that keep d > 0 elements
LiveBlocks(nb, Dbnew) == FilterIn([i \in 1..nb |-> i], {i \in 1..nb : Dbnew[i] > 0})

MaskEntries(a_struct, a_slices, axis, nsym, keys, vals, idx) ==
    [k \in 1..Len(idx) |->
        [ta |-> a_struct.t[idx[k]], sla |-> a_slices[idx[k]].slcs, Da |-> a_struct.D[idx[k]],
         slb |-> DictLast(keys, vals, ChargeAt(a_struct.t[idx[k]], axis, nsym)).slb,
         Db |-> DictLast(keys, vals, ChargeAt(a_struct.t[idx[k]], axis, nsym)).Db]]

\* ind_tb as its keys and values, for the live blocks of b
MaskLookup(a_struct, a_slices, b_struct, b_slices, Dbnew, axis, nsym, live) ==
    With([k \in 1..Len(live) |-> PySlice(b_struct.t[live[k]], 0, nsym)],
         LAMBDA keys :
            MaskEntries(a_struct, a_slices, axis, nsym, keys,
                [k \in 1..Len(live) |-> [slb |-> b_slices[live[k]].slcs, Db |-> Dbnew[live[k]]]],
                BlocksOn(a_struct.t, Min(Min(Len(a_struct.t), Len(a_slices)), Len(a_struct.D)),
                         axis, nsym, keys)))

\* the entries of meta: the blocks of a whose charge on axis is the charge of
\* a block of b that keeps d > 0 elements
MaskMeta(a_struct, a_slices, b_struct, b_slices, Dbnew, axis) ==
    MaskLookup(a_struct, a_slices, b_struct, b_slices, Dbnew, axis, Len(a_struct.n),
               LiveBlocks(Min(Min(Len(b_struct.t), Len(Dbnew)), Len(b_slices)), Dbnew))

MaskedDUntruncated(mt, a_isdiag, axis) == IF a_isdiag THEN <<mt.Da[1], mt.Da[1]>> ELSE mt.Da

\* the dimensions of a masked block
MaskedD(mt, a_isdiag, axis) ==
    IF a_isdiag THEN <<mt.Db, mt.Db>> ELSE PyReplaceAt(mt.Da, axis, mt.Db)

\* the product of the dimensions, for a diagonal block as well
MaskedDpProduct(D, a_isdiag) == ProdSeq(D)

\* the length of the slice of a masked block
MaskedDp(D, a_isdiag) == IF a_isdiag THEN D[1] ELSE ProdSeq(D)

\* the message of line 267, "" when nothing is raised
MaskError(meta, axis) ==
    IF \E i \in 1..Len(meta) : meta[i].Da[axis + 1] # meta[i].slb[2] - meta[i].slb[1]
    THEN "Bond dimensions do not match." ELSE ""

MaskStruct(a_struct, meta, axis, c_D, c_Dp) ==
    With(SlicesFromCumsum(c_Dp, c_D),
         LAMBDA c_slices :
            [err |-> MaskError(meta, axis),
             meta |-> [i \in 1..Min(Len(meta), Len(c_slices)) |->
                        [sln |-> c_slices[i].slcs, sla |-> meta[i].sla, Da |-> meta[i].Da,
                         slb |-> meta[i].slb]],
             struct |-> [a_struct EXCEPT !.t = [i \in 1..Len(meta) |-> meta[i].ta], !.D = c_D,
                                         !.size = SumSeq(c_Dp)],
             slices |-> c_slices])

MaskDims(a_struct, a_isdiag, meta, axis, c_D) ==
    MaskStruct(a_struct, meta, axis, c_D, [i \in 1..Len(meta) |-> MaskedDp(c_D[i], a_isdiag)])

\* _meta_mask: err # "" when it raises, else meta, c_struct and c_slices
MetaMask(a_struct, a_slices, a_isdiag, b_struct, b_slices, Dbnew, axis) ==
    With(MaskMeta(a_struct, a_slices, b_struct, b_slices, Dbnew, axis),
         LAMBDA meta :
            MaskDims(a_struct, a_isdiag, meta, axis,
                     [i \in 1..Len(meta) |-> MaskedD(meta[i], a_isdiag, axis)]))

(***************************************************************************)
(* _meta_trace                                                             *)
(***************************************************************************)
\* the blocks whose charges agree on the first pair of traced legs
TraceIndFirstPair(struct, in1, in2) ==
    FilterIn([i \in 1..Len(struct.t) |-> i],
             {i \in 1..Len(struct.t) :
                SubTuple(struct.t[i], PySlice(in1, 0, 1), Len(struct.n))
                    = SubTuple(struct.t[i], PySlice(in2, 0, 1), Len(struct.n))})

\* the blocks that contribute to the trace: ind = (np.all(t1 == t2, axis=1)).nonzero()[0]
TraceInd(struct, in1, in2) ==
    FilterIn([i \in 1..Len(struct.t) |-> i],
             {i \in 1..Len(struct.t) :
                SubTuple(struct.t[i], in1, Len(struct.n)) = SubTuple(struct.t[i], in2, Len(struct.n))})

\* the entry of meta of the block with charges t, dimensions D and slice slo
TraceEntry(t, D, slo, in1, in2, out, nsym) ==
    [k |-> SubTuple(t, out, nsym),
     tn |-> SubTuple(t, out, nsym),
     Dn |-> Pick(D, out),
     Dnp |-> ProdSeq(Pick(D, out)),
     t12 |-> SubTuple(t, in1, nsym),
     slo |-> slo,
     Do |-> D,
     Drsh |-> <<ProdSeq(Pick(D, in1)), ProdSeq(Pick(D, in2))>> \o Pick(D, out)]

\* meta = sorted(zip(tn, Dn, Dnp, t12, slo, Do, Drsh), key=lambda x: x[0])
TraceMeta(struct, slices, in1, in2, out, ind) ==
    SortByKey([j \in 1..Len(ind) |->
        TraceEntry(struct.t[ind[j]], struct.D[ind[j]], slices[ind[j]].slcs, in1, in2, out,
                   Len(struct.n))])

GroupHeadsEvery(meta) == [i \in 1..Len(meta) |-> i]

\* the positions of meta that open a group of groupby(meta, key=lambda x: x[0])
GroupHeads(meta) ==
    FilterIn([i \in 1..Len(meta) |-> i],
             {i \in 1..Len(meta) : i = 1 \/ meta[i].tn # meta[i - 1].tn})

\* the group the entry at position i belongs to
GroupOf(heads, i) == Cardinality({h \in ToSet(heads) : h <= i})

\* c_slices: the slice of group g starts where the slice of group g - 1 ends
TraceSlices(meta, heads, Dp) ==
    [g \in 1..Len(heads) |->
        [slcs |-> <<SumSeq(SubSeq(Dp, 1, g - 1)), SumSeq(SubSeq(Dp, 1, g - 1)) + Dp[g]>>,
         D |-> meta[heads[g]].Dn, Dp |-> Dp[g]]]

TraceStruct(struct, in1, in2, out, ind, meta, heads, Dp, c_slices) ==
    [meta |-> [i \in 1..Len(meta) |->
                [sl |-> c_slices[GroupOf(heads, i)].slcs, slo |-> meta[i].slo,
                 Do |-> meta[i].Do, Drsh |-> meta[i].Drsh]],
     struct |-> [s |-> Pick(struct.s, out), n |-> struct.n, diag |-> FALSE,
                 t |-> [g \in 1..Len(heads) |-> meta[heads[g]].tn],
                 D |-> [g \in 1..Len(heads) |-> meta[heads[g]].Dn], size |-> SumSeq(Dp)],
     slices |-> c_slices,
     tcon |-> [i \in 1..Len(meta) |-> meta[i].t12],
     D1 |-> [j \in 1..Len(ind) |-> Pick(struct.D[ind[j]], in1)],
     D2 |-> [j \in 1..Len(ind) |-> Pick(struct.D[ind[j]], in2)]]

TraceGroups(struct, in1, in2, out, ind, meta, heads) ==
    With([g \in 1..Len(heads) |-> meta[heads[g]].Dnp],
         LAMBDA Dp :
            TraceStruct(struct, in1, in2, out, ind, meta, heads, Dp, TraceSlices(meta, heads, Dp)))

MetaTraceOf(struct, slices, in1, in2, out, ind) ==
    With(TraceMeta(struct, slices, in1, in2, out, ind),
         LAMBDA meta : TraceGroups(struct, in1, in2, out, ind, meta, GroupHeads(meta)))

\* _meta_trace: meta, struct and slices of the traced tensor, tcon, D1, D2
MetaTrace(struct, slices, in1, in2, out) ==
    MetaTraceOf(struct, slices, in1, in2, out, TraceInd(struct, in1, in2))

(***************************************************************************)
(* trace                                                                   *)
(***************************************************************************)
\* tuple(i for i in range(n) if i not in removed)
LegsNotIn(n, removed) == FilterIn(PyRange(n), (0..(n - 1)) \ ToSet(removed))

\* lines 369-373: the trace of a diagonal tensor is a scalar
TraceOfDiag(x, mfs, hfs) ==
    [struct |-> [x.struct EXCEPT !.s = <<>>, !.diag = FALSE, !.t = <<<<>>>>, !.D = <<<<>>>>,
                                 !.size = 1],
     slices |-> <<[slcs |-> <<0, 1>>, D |-> <<>>, Dp |-> 1]>>,
     mfs |-> mfs, hfs |-> hfs, isdiag |-> FALSE, data |-> <<>>]

\* the position of the element with indices idx in a row-major block of
\* dimensions D
Flat(idx, D) == SumSeq([l \in 1..Len(D) |-> idx[l] * ProdSeq(SubSeq(D, l + 1, Len(D)))])

\* the indices of the element at position f of a row-major block of dimensions D
Unflat(f, D) == [l \in 1..Len(D) |-> (f \div ProdSeq(SubSeq(D, l + 1, Len(D)))) % D[l]]

\* the elements of the block of meta entry m that are added into element o
\* of its output block: the block is transposed into the order in1, in2, out
\* and reshaped to Drsh, and the diagonal of its first two axes is summed
TracedInto(m, in1, in2, out, o) ==
    {m.slo[1] + f : f \in {g \in 0..(ProdSeq(m.Do) - 1) :
        /\ Flat(Pick(Unflat(g, m.Do), in1), Pick(m.Do, in1))
            = Flat(Pick(Unflat(g, m.Do), in2), Pick(m.Do, in2))
        /\ Flat(Pick(Unflat(g, m.Do), out), Pick(m.Do, out)) = o}}

\* backend.trace(a._data, order, meta, size): every element of the result is
\* the sum of elements of a._data, given as the set of their positions
BackendTrace(in1, in2, out, meta, size) ==
    [p \in 1..size |->
        UNION {TracedInto(meta[i], in1, in2, out, p - 1 - meta[i].sl[1]) :
                i \in {j \in 1..Len(meta) : meta[j].sl[1] <= p - 1 /\ p - 1 < meta[j].sl[2]}}]

\* lines 375-383
TraceBlocks(x, needs_mask, mfs, hfs, in1, in2, out, mt) ==
    IF ~needs_mask /\ mt.D1 # mt.D2
    THEN Raised("Bond dimensions do not match.", <<MetaCall("_meta_trace", mt)>>)
    ELSE Returned([struct |-> mt.struct, slices |-> mt.slices, mfs |-> mfs, hfs |-> hfs,
                   isdiag |-> x.isdiag,
                   data |-> IF needs_mask THEN <<>>
                            ELSE BackendTrace(in1, in2, out, mt.meta, mt.struct.size)],
                  <<MetaCall("_meta_trace", mt)>>)

\* lines 360-383
TraceLegs(x, needs_mask, in1, in2, out, mfs) ==
    IF Len(in1) = 0 THEN Returned(x, <<>>)
    ELSE IF x.isdiag THEN Returned(TraceOfDiag(x, mfs, Pick(x.hfs, out)), <<>>)
    ELSE TraceBlocks(x, needs_mask, mfs, Pick(x.hfs, out), in1, in2, out,
                     MetaTrace(x.struct, x.slices, in1, in2, out))

TraceMatched(x, ax, tam) ==
    IF tam.err # "" THEN Raised(tam.err, <<>>)
    ELSE TraceLegs(x, tam.needs_mask, tam.nin_a, tam.nin_b,
                   LegsNotIn(NdimN(x), tam.nin_a \o tam.nin_b),
                   Pick(x.mfs, LegsNotIn(Ndim(x), ax[1] \o ax[2])))

Trace(x, ax) ==
    IF ToSet(ax[1]) \cap ToSet(ax[2]) # {}
    THEN Raised("The same axis in axes[0] and axes[1].", <<>>)
    ELSE TraceMatched(x, ax, TestAxesMatch(x, x, -1, ax))

(***************************************************************************)
(* broadcast and apply_mask, for one target tensor                         *)
(***************************************************************************)
\* Python's axis % n for n > 0
PyMod(x, n) == x % n

\* lines 180-184 of _broadcast_input, for axis % len(mf)
UnpackedAxis(ax, mf) ==
    IF mf[ax + 1] # <<1>>
    THEN [err |-> "Second tensor's leg specified by axis cannot be fused.", axis |-> 0]
    ELSE [err |-> "", axis |-> SumSeq([ii \in 1..ax |-> mf[ii][1]])]

\* _broadcast_input: err # "" when it raises, else the native leg of axis
BroadcastInput(axis, mf, isdiag) ==
    IF ~isdiag THEN [err |-> "First tensor should be diagonal.", axis |-> 0]
    ELSE UnpackedAxis(PyMod(axis, Len(mf)), mf)

\* the dimensions and the axis handed to the backend: Db[0] and axis 0 for a
\* diagonal target (lines 167-169 and 246-248)
BlockDims(D, isdiag) == IF isdiag THEN <<D[1]>> ELSE D

BlockAxis(axis, isdiag) == IF isdiag THEN 0 ELSE axis

\* the index on leg axis of the element at flat position f of a block
AxisIndex(f, D, axis) == Unflat(f, D)[axis + 1]

\* backend.dot_diag for one block: every element of the block of the target
\* (slice slb of Bdata) times the diagonal element (slice sla of Adata) of
\* its index on leg axis
DotDiagBlock(Adata, Bdata, slb, D, sla, axis) ==
    [f \in 1..ProdSeq(D) |-> Bdata[slb[1] + f] * Adata[sla[1] + AxisIndex(f - 1, D, axis) + 1]]

\* backend.dot_diag(a._data, b._data, meta, struct.size, ax, b_ndim)
DotDiag(Adata, Bdata, meta, axis, isdiag) ==
    Concat([i \in 1..Len(meta) |->
        DotDiagBlock(Adata, Bdata, meta[i].slb, BlockDims(meta[i].Db, isdiag), meta[i].sla,
                     BlockAxis(axis, isdiag))])

\* lines 165-173
BroadcastBlocks(x, y, axis, mb) ==
    IF mb.err # "" THEN Raised(mb.err, <<>>)
    ELSE Returned([WithStruct(y, mb.struct, mb.slices) EXCEPT
                        !.data = DotDiag(x.data, y.data, mb.meta, axis, y.isdiag)],
                  <<MetaCall("_meta_broadcast", mb)>>)

\* lines 161-173
BroadcastOn(x, y, bi) ==
    IF bi.err # "" THEN Raised(bi.err, <<>>)
    ELSE IF y.hfs[bi.axis + 1].tree # <<1>>
    THEN Raised("Second tensor's leg specified in axes cannot be fused.", <<>>)
    ELSE BroadcastBlocks(x, y, bi.axis, MetaBroadcast(y.struct, y.slices, x.struct, x.slices, bi.axis))

\* a.broadcast(b, axes=axis)
Broadcast(x, y, axis) == BroadcastOn(x, y, BroadcastInput(axis, y.mfs, x.isdiag))

\* backend.count_nonzero of every block of the diagonal tensor x
CountNonzero(x) ==
    [i \in 1..Len(x.slices) |->
        Cardinality({j \in (x.slices[i].slcs[1] + 1)..x.slices[i].slcs[2] :
                        j <= Len(x.data) /\ x.data[j] # 0})]

\* the flat positions of a block whose index on leg axis is a nonzero element
\* of the mask (slice slb of Adata), in the order of the block
Unmasked(Adata, D, slb, axis) ==
    SelectSeq([f \in 1..ProdSeq(D) |-> f],
              LAMBDA f : Adata[slb[1] + AxisIndex(f - 1, D, axis) + 1] # 0)

\* backend.mask_diag for one block: the elements of the block of the target
\* (slice sla of Bdata) at the positions that are not masked
MaskDiagBlock(Bdata, sla, kept) == [k \in 1..Len(kept) |-> Bdata[sla[1] + kept[k]]]

\* backend.mask_diag(b._data, a._data, meta, struct.size, ax, b_ndim)
MaskDiag(Bdata, Adata, meta, axis, isdiag) ==
    Concat([i \in 1..Len(meta) |->
        MaskDiagBlock(Bdata, meta[i].sla,
                      Unmasked(Adata, BlockDims(meta[i].Da, isdiag), meta[i].slb,
                               BlockAxis(axis, isdiag)))])

\* lines 244-252
MaskBlocks(x, y, axis, mm) ==
    IF mm.err # "" THEN Raised(mm.err, <<>>)
    ELSE Returned([WithStruct(y, mm.struct, mm.slices) EXCEPT
                        !.data = MaskDiag(y.data, x.data, mm.meta, axis, y.isdiag)],
                  <<MetaCall("_meta_mask", mm)>>)

\* lines 239-252
ApplyMaskOn(x, y, bi) ==
    IF bi.err # "" THEN Raised(bi.err, <<>>)
    ELSE IF y.hfs[bi.axis + 1].tree # <<1>>
    THEN Raised("Second tensor's leg specified by axes cannot be fused.", <<>>)
    ELSE MaskBlocks(x, y, bi.axis, MetaMask(y.struct, y.slices, y.isdiag, x.struct, x.slices,
                                CountNonzero(x), bi.axis))

\* a.apply_mask(b, axes=axis)
ApplyMask(x, y, axis) == ApplyMaskOn(x, y, BroadcastInput(axis, y.mfs, x.isdiag))

(***************************************************************************)
(* transpose (tensor.py): the legs in a new order                          *)
(***************************************************************************)
\* the blocks of x with the native legs in the order uorder
PermutedBlocks(x, uorder) ==
    {[k |-> SubTuple(x.struct.t[i], uorder, Len(x.struct.n)), D |-> Pick(x.struct.D[i], uorder)] :
        i \in 1..Len(x.struct.t)}

TransposeNative(x, order, uorder, c) ==
    [struct |-> [c.struct EXCEPT !.size = x.struct.size], slices |-> c.slices,
     mfs |-> Pick(x.mfs, order), hfs |-> Pick(x.hfs, uorder), isdiag |-> x.isdiag,
     data |-> <<>>]

TransposeOf(x, order, uorder) ==
    TransposeNative(x, order, uorder,
        SortedBlocks(Pick(x.struct.s, uorder), x.struct.n, PermutedBlocks(x, uorder)))

\* the tensor with meta legs in the order given by order
Transpose(x, order) == IF x.isdiag THEN x ELSE TransposeOf(x, order, UnpackAxes(x.mfs, order))

\* the order that moves leg src to the front (dst = 0) or to the end (dst = -1)
MovedOrder(src, dst, rest) == IF dst = 0 THEN <<src>> \o rest ELSE rest \o <<src>>

\* moveaxis(source=(src,), destination=(dst,)), dst being 0 or -1
MoveAxis(x, src, dst) == Transpose(x, MovedOrder(src, dst, LegsNotIn(Ndim(x), <<src>>)))

(***************************************************************************)
(* tensordot                                                               *)
(***************************************************************************)
\* the result r of a call that followed the calls logged in log
AfterLog(log, r) == [r EXCEPT !.aux = log \o r.aux]

\* c.moveaxis(source=in_b, destination=destination) of the broadcast result c
DiagMoved(c, src, dst) ==
    IF c.kind = "error" THEN c ELSE Returned(MoveAxis(c.ten, src, dst), c.aux)

\* c.trace(axes=in_b) of the broadcast result c
DiagTraced(c, in_b) ==
    IF c.kind = "error" THEN c ELSE AfterLog(c.aux, Trace(c.ten, <<<<in_b[1]>>, <<in_b[2]>>>>))

\* _tensordot_diag: broadcast, then transpose into the order tensordot expects
TensordotDiag(x, y, in_b, destination) ==
    IF Len(in_b) = 1 THEN DiagMoved(Broadcast(x, y, in_b[1]), in_b[1], destination)
    ELSE IF Len(in_b) = 2 THEN DiagTraced(Broadcast(x, y, in_b[1]), in_b)
    ELSE Raised("Outer product with diagonal tensor not supported. Use yastn.diag() first.", <<>>)

\* the outgoing native legs: tuple(ii for ii in range(ndim_n) if ii not in nin)
Nout(ndim_n, nin) == FilterIn(PyRange(ndim_n), (0..(ndim_n - 1)) \ ToSet(nin))

\* the descriptors of the outgoing legs of b, then of a
OutDescSwapped(da, outa, db, outb) == Pick(db, outb) \o Pick(da, outa)

\* the leg descriptors of the product: those of the outgoing legs of a, then of b
OutDesc(da, outa, db, outb) == Pick(da, outa) \o Pick(db, outb)

\* no test of the leg structures
BondMismatchNever(ls_ac, ls_bc) == FALSE

\* the test of line 78: the leg structures of the contracted legs differ
BondMismatch(ls_ac, ls_bc) == ls_ac # ls_bc

\* the entry of aux for the call of _common_inds that returned ci
CommonIndsCall(t_a, t_b, nin_a, nin_b, ci) ==
    [fn |-> "_common_inds", t_a |-> t_a, t_b |-> t_b, nin_a |-> nin_a, nin_b |-> nin_b,
     ia |-> ci.ia, ib |-> ci.ib]

\* lines 82-84
TensordotUnmerged(x, mfs_c, hfs_c, um, log) ==
    Returned([struct |-> um.struct, slices |-> um.slices, mfs |-> mfs_c, hfs |-> hfs_c,
              isdiag |-> x.isdiag, data |-> <<>>], log)

\* lines 72-84
TensordotMerged(x, needs_mask, s_c, mfs_c, hfs_c, ma, mb, md, log) ==
    IF ~md.ok THEN Raised("This should not have happend", log)
    ELSE IF ~needs_mask /\ BondMismatch(ma.ls1, mb.ls0)
    THEN Raised("Bond dimensions do not match.", log \o <<MetaCall("_meta_tensordot", md)>>)
    ELSE TensordotUnmerged(x, mfs_c, hfs_c, MetaUnmergeMatrix(md.struct, ma.ls0, mb.ls1, s_c),
                           log \o <<MetaCall("_meta_tensordot", md)>>)

\* lines 69-84
TensordotMatrices(x, needs_mask, s_c, mfs_c, hfs_c, ma, mb, log) ==
    TensordotMerged(x, needs_mask, s_c, mfs_c, hfs_c, ma, mb,
                    MetaTensordot(ma.m.struct, ma.m.slices, mb.m.struct, mb.m.slices), log)

\* lines 67-84
TensordotCommon(x, y, ax, needs_mask, nin_a, nin_b, nout_a, nout_b, ci) ==
    TensordotMatrices(x, needs_mask,
        OutDesc(x.struct.s, nout_a, y.struct.s, nout_b),
        OutDesc(x.mfs, Nout(Ndim(x), ax[1]), y.mfs, Nout(Ndim(y), ax[2])),
        OutDesc(x.hfs, nout_a, y.hfs, nout_b),
        MergeToMatrix(x, nout_a, nin_a, ci.ia),
        MergeToMatrix(y, nin_b, nout_b, ci.ib),
        <<CommonIndsCall(x.struct.t, y.struct.t, nin_a, nin_b, ci)>>)

\* lines 59-84
TensordotDense(x, y, ax, needs_mask, nin_a, nin_b, nout_a, nout_b) ==
    TensordotCommon(x, y, ax, needs_mask, nin_a, nin_b, nout_a, nout_b,
                    CommonInds(x.struct.t, y.struct.t, nin_a, nin_b, Len(x.struct.n)))

\* lines 53-84
TensordotMatched(x, y, ax, tam) ==
    IF tam.err # "" THEN Raised(tam.err, <<>>)
    ELSE IF x.isdiag THEN TensordotDiag(x, y, ax[2], 0)
    ELSE IF y.isdiag THEN TensordotDiag(y, x, ax[1], -1)
    ELSE TensordotDense(x, y, ax, tam.needs_mask, tam.nin_a, tam.nin_b,
                        Nout(NdimN(x), tam.nin_a), Nout(NdimN(y), tam.nin_b))

\* lines 52-84, for the operands as they are contracted
TensordotOf(x, y, ax) == TensordotMatched(x, y, ax, TestAxesMatch(x, y, -1, ax))

\* tensordot(a, b, axes, conj)
Tensordot(x, y, ax, cj) == TensordotOf(ConjIf(cj[1], x), ConjIf(cj[2], y), ax)

(***************************************************************************)
(* _meta_ncon and _consume_edges: the planner.  An edge is the tuple       *)
(* <<order, leg, ten>>.  A plan lists the trace commands, the tensordot    *)
(* commands and the final transpose; every command also lists the labels   *)
(* it contracts (labels), which the code does not return.                  *)
(***************************************************************************)
Sentinel == 512

OutOffset == 1024

LabelLimit == 256

NoPlan == [kind |-> "none", msg |-> "", tr |-> <<>>, dot |-> <<>>, transpose |-> <<>>]

PlanError(msg) == [kind |-> "error", msg |-> msg, tr |-> <<>>, dot |-> <<>>, transpose |-> <<>>]

\* x[-1] and x[-2]
Last(x) == x[Len(x)]

Last2(x) == x[Len(x) - 1]

\* the list left by x.pop()
Popped(x) == SubSeq(x, 1, Len(x) - 1)

\* the non-positive labels are not negated
EdgeOfUnnegated(order, leg, ten) == <<IF order > 0 THEN order ELSE order + OutOffset, leg, ten>>

\* [order, leg, ten] if order > 0 else [-order + 1024, leg, ten]
EdgeOf(order, leg, ten) == <<IF order > 0 THEN order ELSE -order + OutOffset, leg, ten>>

\* lines 630-632: the edges of all legs, tensor by tensor, then the end mark
Edges(ind) ==
    Concat([ten \in 1..Len(ind) |->
                [leg \in 1..Len(ind[ten]) |-> EdgeOf(ind[ten][leg], leg - 1, ten - 1)]])
    \o <<<<Sentinel, Sentinel, Sentinel>>>>

\* the edges of a list sorted by key k
Unkeyed(xs) == [i \in 1..Len(xs) |-> xs[i].e]

\* sorted(edges, reverse=True, key=lambda x: x[0]): descending, and stable
SortedDescending(edges) ==
    Unkeyed(SortByKey([i \in 1..Len(edges) |-> [k |-> <<-edges[i][1]>>, e |-> edges[i]]]))

\* sorted(edges): ascending by order, then leg, then tensor
SortedEdges(edges) ==
    Unkeyed(SortByKey([i \in 1..Len(edges) |-> [k |-> edges[i], e |-> edges[i]]]))

\* sum(i < leg for i in ax)
CountBelow(ax, leg) == Cardinality({i \in 1..Len(ax) : ax[i] < leg})

\* sum(ii[2] == t for ii in edges)
LegsOf(edges, t) == Cardinality({i \in 1..Len(edges) : edges[i][3] = t})

\* lines 661-662: the legs of t1 move down by the traced legs before them
EdgesAfterTrace(edges, t1, ax12) ==
    [i \in 1..Len(edges) |->
        IF edges[i][3] = t1
        THEN <<edges[i][1], edges[i][2] - CountBelow(ax12, edges[i][2]), edges[i][3]>>
        ELSE edges[i]]

\* the legs of t2 keep their positions
EdgesAfterDotUnshifted(edges, t1, t2, ax1, ax2, lt1) ==
    [i \in 1..Len(edges) |->
        IF edges[i][3] = t1
        THEN <<edges[i][1], edges[i][2] - CountBelow(ax1, edges[i][2]), edges[i][3]>>
        ELSE IF edges[i][3] = t2
        THEN <<edges[i][1], edges[i][2] - CountBelow(ax2, edges[i][2]), t1>>
        ELSE edges[i]]

\* lines 667-672: the legs of t2 follow the lt1 remaining legs of t1
EdgesAfterDot(edges, t1, t2, ax1, ax2, lt1) ==
    [i \in 1..Len(edges) |->
        IF edges[i][3] = t1
        THEN <<edges[i][1], edges[i][2] - CountBelow(ax1, edges[i][2]), edges[i][3]>>
        ELSE IF edges[i][3] = t2
        THEN <<edges[i][1], edges[i][2] + lt1 - CountBelow(ax2, edges[i][2]), t1>>
        ELSE edges[i]]

\* lines 683-685: the legs of t2 follow the lt1 legs of t1
EdgesAfterOuter(edges, t1, t2, lt1) ==
    [i \in 1..Len(edges) |->
        IF edges[i][3] = t2 THEN <<edges[i][1], edges[i][2] + lt1, t1>> ELSE edges[i]]

\* every pair of legs is contracted at once
ExecuteAlways(edges, t1, t2) == TRUE

\* the test of line 653 on the edges that are left
Execute(edges, t1, t2) ==
    \/ Last(edges)[1] = Sentinel
    \/ Min(Last(edges)[3], Last2(edges)[3]) # t1
    \/ Max(Last(edges)[3], Last2(edges)[3]) # t2

\* line 674 (and 644): order1, leg1, ten1 = edges.pop()
PopNext(st) == [st EXCEPT !.cur = Last(st.edges), !.edges = Popped(st.edges)]

\* a trace is accepted after a tensordot
DoTraceUnchecked(st, t1, ax1, ax2, labels) ==
    PopNext([st EXCEPT !.tr = Append(st.tr, [t |-> t1, ax1 |-> ax1, ax2 |-> ax2, labels |-> labels]),
                       !.edges = EdgesAfterTrace(st.edges, t1, ax1 \o ax2),
                       !.ax1 = <<>>, !.ax2 = <<>>, !.labels = <<>>])

\* lines 655-662
DoTrace(st, t1, ax1, ax2, labels) ==
    IF Len(st.dot) > 0
    THEN [st EXCEPT !.err = "Likely inefficient order of contractions. Do all traces before tensordot. Call all axes connecting two tensors one after another."]
    ELSE PopNext([st EXCEPT !.tr = Append(st.tr, [t |-> t1, ax1 |-> ax1, ax2 |-> ax2, labels |-> labels]),
                            !.edges = EdgesAfterTrace(st.edges, t1, ax1 \o ax2),
                            !.ax1 = <<>>, !.ax2 = <<>>, !.labels = <<>>])

\* the flags of t1 and t2 are left as they are
DoDotKeepingConjs(st, t1, t2, ax1, ax2, labels) ==
    PopNext([st EXCEPT !.dot = Append(st.dot, [t1 |-> t1, t2 |-> t2, ax1 |-> ax1, ax2 |-> ax2,
                                               conj |-> <<st.conjs[t1 + 1], st.conjs[t2 + 1]>>,
                                               labels |-> labels]),
                       !.eliminated = Append(st.eliminated, t2),
                       !.edges = EdgesAfterDot(st.edges, t1, t2, ax1, ax2, LegsOf(st.edges, t1)),
                       !.ax1 = <<>>, !.ax2 = <<>>, !.labels = <<>>])

\* lines 664-672
DoDot(st, t1, t2, ax1, ax2, labels) ==
    PopNext([st EXCEPT !.dot = Append(st.dot, [t1 |-> t1, t2 |-> t2, ax1 |-> ax1, ax2 |-> ax2,
                                               conj |-> <<st.conjs[t1 + 1], st.conjs[t2 + 1]>>,
                                               labels |-> labels]),
                       !.eliminated = Append(st.eliminated, t2),
                       !.conjs = [i \in 1..Len(st.conjs) |->
                                    IF i = t1 + 1 \/ i = t2 + 1 THEN 0 ELSE st.conjs[i]],
                       !.edges = EdgesAfterDot(st.edges, t1, t2, ax1, ax2, LegsOf(st.edges, t1)),
                       !.ax1 = <<>>, !.ax2 = <<>>, !.labels = <<>>])

\* lines 651-674, for the ordered pair t1 <= t2 with legs leg1 and leg2
Contract(st, order, t1, t2, leg1, leg2) ==
    IF ~Execute(st.edges, t1, t2)
    THEN PopNext([st EXCEPT !.ax1 = Append(st.ax1, leg1), !.ax2 = Append(st.ax2, leg2),
                            !.labels = Append(st.labels, order)])
    ELSE IF t1 = t2
    THEN DoTrace(st, t1, Append(st.ax1, leg1), Append(st.ax2, leg2), Append(st.labels, order))
    ELSE DoDot(st, t1, t2, Append(st.ax1, leg1), Append(st.ax2, leg2), Append(st.labels, order))

\* the two tensors are taken in the order their edges are popped
PairUnordered(st, e1, e2) ==
    IF e1[1] # e2[1]
    THEN [st EXCEPT !.err = "Indices of legs to contract do not match."]
    ELSE Contract(st, e1[1], e1[3], e2[3], e1[2], e2[2])

\* lines 647-650, e2 being the edge popped in line 647
Pair(st, e1, e2) ==
    IF e1[1] # e2[1]
    THEN [st EXCEPT !.err = "Indices of legs to contract do not match."]
    ELSE IF e1[3] < e2[3]
    THEN Contract(st, e1[1], e1[3], e2[3], e1[2], e2[2])
    ELSE Contract(st, e1[1], e2[3], e1[3], e2[2], e1[2])

\* one round of the while loop of line 646
Round(st) == Pair([st EXCEPT !.edges = Popped(st.edges)], st.cur, Last(st.edges))

\* the while loop of lines 646-674
RECURSIVE Consume(_)
Consume(st) ==
    IF st.err # "" \/ st.cur[1] = Sentinel THEN st ELSE Consume(Round(st))

RemainingAll(ntensors, eliminated) == PyRange(ntensors)

\* remaining = [i for i in range(ntensors) if i not in eliminated]
Remaining(ntensors, eliminated) == FilterIn(PyRange(ntensors), (0..(ntensors - 1)) \ ToSet(eliminated))

\* lines 678-685: the outer products of the tensors that are left
RECURSIVE Outer(_, _, _)
Outer(st, t1, rest) ==
    IF rest = <<>> THEN st
    ELSE Outer([st EXCEPT !.dot = Append(st.dot, [t1 |-> t1, t2 |-> Head(rest), ax1 |-> <<>>, ax2 |-> <<>>,
                                                  conj |-> <<st.conjs[t1 + 1], st.conjs[Head(rest) + 1]>>,
                                                  labels |-> <<>>]),
                          !.eliminated = Append(st.eliminated, Head(rest)),
                          !.conjs = [i \in 1..Len(st.conjs) |->
                                       IF i = t1 + 1 \/ i = Head(rest) + 1 THEN 0 ELSE st.conjs[i]],
                          !.edges = EdgesAfterOuter(st.edges, t1, Head(rest), LegsOf(st.edges, t1))],
               t1, Tail(rest))

\* lines 689-691: the order for the final transpose, None if it keeps the order
TransposeAxes(sorted) ==
    IF [i \in 1..Len(sorted) |-> sorted[i][2]] = PyRange(Len(sorted)) THEN None
    ELSE Some([i \in 1..Len(sorted) |-> sorted[i][2]])

\* lines 686-693
Emit(st, t1) ==
    IF Cardinality({st.edges[i][1] : i \in 1..Len(st.edges)}) # Len(st.edges)
    THEN PlanError("Repeated non-positive (outgoing) index is ambiguous.")
    ELSE [kind |-> "plan", msg |-> "", tr |-> st.tr, dot |-> st.dot,
          transpose |-> [t |-> t1, axes |-> TransposeAxes(SortedEdges(st.edges)),
                         conj |-> st.conjs[t1 + 1]]]

\* lines 676-693
Finalize(st, remaining) ==
    IF remaining = <<>> THEN PlanError("IndexError")
    ELSE Emit(Outer(st, remaining[1], Tail(remaining)), remaining[1])

\* lines 676-693 after the loop ended in state st
Conclude(st) ==
    IF st.err # "" THEN PlanError(st.err)
    ELSE Finalize(st, Remaining(Len(st.conjs), st.eliminated))

\* _consume_edges(edges, conjs)
ConsumeEdges(edges, cj) ==
    Conclude(Consume(PopNext([edges |-> edges, conjs |-> cj, eliminated |-> <<>>, tr |-> <<>>,
                              dot |-> <<>>, ax1 |-> <<>>, ax2 |-> <<>>, labels |-> <<>>,
                              cur |-> <<>>, err |-> ""])))

\* _flatten(inds)
Flatten(ind) == Concat(ind)

\* conjs = [0] * len(inds) if conjs is None else list(conjs)
ConjsOrZeros(ind, cj) == IF cj.none THEN [i \in 1..Len(ind) |-> 0] ELSE cj.v

\* _meta_ncon(inds, conjs)
MetaNcon(ind, cj) ==
    IF \E i \in 1..Len(Flatten(ind)) : ~(-LabelLimit < Flatten(ind)[i] /\ Flatten(ind)[i] < LabelLimit)
    THEN PlanError("ncon requires indices to be between -256 and 256.")
    ELSE ConsumeEdges(SortedDescending(Edges(ind)), ConjsOrZeros(ind, cj))

(***************************************************************************)
(* ncon.  The tensors are followed through the plan by their legs only: a  *)
(* tensor is the list of its legs, a leg the record of the label it was    *)
(* given (lab), the tensor and position it comes from (ten, leg) and       *)
(* whether it has been conjugated (cj).  trace and tensordot keep the      *)
(* remaining legs in their order (lines 60-65 and 364-367); pairs lists    *)
(* the legs that were contracted with each other.                          *)
(***************************************************************************)
\* the legs of the tensors as they are passed to ncon
LegsOfTensors(ind) ==
    [ten \in 1..Len(ind) |->
        [leg \in 1..Len(ind[ten]) |->
            [lab |-> ind[ten][leg], ten |-> ten - 1, leg |-> leg - 1, cj |-> 0]]]

\* x.conj() if flag, on the legs of x
LegsConj(flag, l) == IF flag = 1 THEN [i \in 1..Len(l) |-> [l[i] EXCEPT !.cj = 1 - l[i].cj]] ELSE l

\* the axes name different legs of a tensor with n legs
ValidAxes(ax, n) ==
    /\ \A i \in 1..Len(ax) : 0 <= ax[i] /\ ax[i] < n
    /\ Cardinality(ToSet(ax)) = Len(ax)

\* the pairs of legs that ax1 and ax2 select in l1 and l2
PairsOf(l1, l2, ax1, ax2) == [i \in 1..Len(ax1) |-> <<l1[ax1[i] + 1], l2[ax2[i] + 1]>>]

\* line 613: ts[t] = trace(ts[t], axes=axes)
ExecTrace(st, c) ==
    IF ~ValidAxes(c.ax1 \o c.ax2, Len(st.ts[c.t + 1])) \/ Len(c.ax1) # Len(c.ax2)
    THEN [st EXCEPT !.err = "trace: wrong axes"]
    ELSE [st EXCEPT !.ts[c.t + 1] = Pick(st.ts[c.t + 1], LegsNotIn(Len(st.ts[c.t + 1]), c.ax1 \o c.ax2)),
                    !.pairs = st.pairs \o PairsOf(st.ts[c.t + 1], st.ts[c.t + 1], c.ax1, c.ax2)]

\* the legs of tensordot(x, y, axes): those left of x, then those left of y
LegsDot(l1, l2, ax1, ax2) ==
    Pick(l1, LegsNotIn(Len(l1), ax1)) \o Pick(l2, LegsNotIn(Len(l2), ax2))

\* lines 616-617, for the operands l1 and l2 as they are contracted
ExecDotOf(st, c, l1, l2) ==
    IF ~ValidAxes(c.ax1, Len(l1)) \/ ~ValidAxes(c.ax2, Len(l2)) \/ Len(c.ax1) # Len(c.ax2)
    THEN [st EXCEPT !.err = "tensordot: wrong axes"]
    ELSE [st EXCEPT !.ts[c.t1 + 1] = LegsDot(l1, l2, c.ax1, c.ax2),
                    !.deleted = st.deleted \cup {c.t2},
                    !.pairs = st.pairs \o PairsOf(l1, l2, c.ax1, c.ax2)]

\* lines 615-617: ts[t1] = tensordot(ts[t1], ts[t2], axes=axes, conj=conj); del ts[t2]
ExecDot(st, c) ==
    IF c.t1 \in st.deleted \/ c.t2 \in st.deleted THEN [st EXCEPT !.err = "KeyError"]
    ELSE ExecDotOf(st, c, LegsConj(c.conj[1], st.ts[c.t1 + 1]), LegsConj(c.conj[2], st.ts[c.t2 + 1]))

\* lines 611-613
RECURSIVE ExecTraces(_, _)
ExecTraces(st, cmds) ==
    IF cmds = <<>> \/ st.err # "" THEN st ELSE ExecTraces(ExecTrace(st, Head(cmds)), Tail(cmds))

\* lines 614-617
RECURSIVE ExecDots(_, _)
ExecDots(st, cmds) ==
    IF cmds = <<>> \/ st.err # "" THEN st ELSE ExecDots(ExecDot(st, Head(cmds)), Tail(cmds))

\* lines 619-620: ts[t].transpose(axes=axes) if axes is not None
ExecTranspose(l, ax) == IF ax.none THEN l ELSE Pick(l, ax.v)

\* what ncon returns: the legs of the result and the pairs contracted
NconResult(legs, pairs) == [kind |-> "tensor", msg |-> "", ten |-> [legs |-> legs, pairs |-> pairs], aux |-> <<>>]

\* lines 618-621
ExecLast(st, tp) ==
    IF st.err # "" THEN Raised(st.err, <<>>)
    ELSE IF tp.t \in st.deleted THEN Raised("KeyError", <<>>)
    ELSE IF ~tp.axes.none /\ (~ValidAxes(tp.axes.v, Len(st.ts[tp.t + 1])) \/ Len(tp.axes.v) # Len(st.ts[tp.t + 1]))
    THEN Raised("transpose: wrong axes", <<>>)
    ELSE NconResult(LegsConj(tp.conj, ExecTranspose(st.ts[tp.t + 1], tp.axes)), st.pairs)

\* lines 609-621
NconPlanned(ind, p) ==
    IF p.kind = "error" THEN Raised(p.msg, <<>>)
    ELSE ExecLast(ExecDots(ExecTraces([ts |-> LegsOfTensors(ind), deleted |-> {}, pairs |-> <<>>,
                                       err |-> ""], p.tr), p.dot), p.transpose)

(***************************************************************************)
(* einsum.  A string is the tuple of its characters.                       *)
(***************************************************************************)
\* alphabet1 of line 529, in the order of the code points
Alphabet1 ==
    <<"A", "B", "C", "D", "E", "F", "G", "H", "I", "J", "K", "L", "M", "N", "O", "P", "Q",
      "R", "S", "T", "U", "W", "X", "Y", "Z", "a", "b", "c", "d", "e", "f", "g", "h", "i",
      "j", "k", "l", "m", "n", "o", "p", "q", "r", "s", "t", "u", "v", "w", "x", "y", "z">>

\* s.replace(c, '')
Without(s, c) == SelectSeq(s, LAMBDA x : x # c)

\* s.count(v) for a character v
Count(s, v) == Cardinality({i \in 1..Len(s) : s[i] = v})

\* the first position (from 1) of character c in s, 0 if there is none
Find(s, c) ==
    IF \E i \in 1..Len(s) : s[i] = c
    THEN CHOOSE i \in 1..Len(s) : s[i] = c /\ \A j \in 1..(i - 1) : s[j] # c
    ELSE 0

\* the first position (from 1) where '->' starts in s, 0 if there is none
FindArrow(s) ==
    IF \E i \in 1..(Len(s) - 1) : s[i] = "-" /\ s[i + 1] = ">"
    THEN CHOOSE i \in 1..(Len(s) - 1) :
            /\ s[i] = "-" /\ s[i + 1] = ">"
            /\ \A j \in 1..(i - 1) : ~(s[j] = "-" /\ s[j + 1] = ">")
    ELSE 0

\* s.split(','), the first comma being at position at (0: there is none)
RECURSIVE SplitCommas(_)
SplitCommasAt(s, at) ==
    IF at = 0 THEN <<s>>
    ELSE <<SubSeq(s, 1, at - 1)>> \o SplitCommas(SubSeq(s, at + 1, Len(s)))

SplitCommas(s) == SplitCommasAt(s, Find(s, ","))

\* s.split('->'), the first '->' being at position at (0: there is none)
RECURSIVE SplitArrows(_)
SplitArrowsAt(s, at) ==
    IF at = 0 THEN <<s>>
    ELSE <<SubSeq(s, 1, at - 1)>> \o SplitArrows(SubSeq(s, at + 2, Len(s)))

SplitArrows(s) == SplitArrowsAt(s, FindArrow(s))

\* sorted(order) for a list of letters of alphabet1
SortedLetters(letters) ==
    Concat([i \in 1..Len(Alphabet1) |->
                [j \in 1..Count(letters, Alphabet1[i]) |-> Alphabet1[i]]])

\* lines 538-541: the letters that occur once, in the order of sin
DefaultOut(sin) == SelectSeq(Without(sin, ","), LAMBDA v : Count(sin, v) = 1)

\* lines 545-550: one entry for every occurrence of a repeated letter, sorted
AlphabeticOrder(sin) == SortedLetters(SelectSeq(Without(sin, ","), LAMBDA v : Count(sin, v) > 1))

\* the last position (from 1) of character c in s
FindLast(s, c) == CHOOSE i \in 1..Len(s) : s[i] = c /\ \A j \in (i + 1)..Len(s) : s[j] # c

\* v in d, for d = {**din, **dout} with d[','] = 0
Labelled(v, ord, sout) == v = "," \/ Count(ord, v) > 0 \/ Count(sout, v) > 0

\* d[v]: dout goes over din, and the last entry of a repeated key is kept
LabelOf(v, ord, sout) ==
    IF Count(sout, v) > 0 THEN -(FindLast(sout, v) - 1)
    ELSE IF Count(ord, v) > 0 THEN FindLast(ord, v)
    ELSE 0

\* inds = [tuple(d[v] for v in ss) for ss in sin.split(',')]
IndsOf(parts, ord, sout) ==
    [t \in 1..Len(parts) |-> [l \in 1..Len(parts[t]) |-> LabelOf(parts[t][l], ord, sout)]]

\* lines 599-603 of ncon, ts being the numbers of legs of the tensors
NconArgsError(ts, ind) ==
    IF Len(ts) # Len(ind) THEN "Number of tensors and indices do not match."
    ELSE IF \E t \in 1..Len(ts) : ts[t] # Len(ind[t])
    THEN "Number of legs of one of the tensors do not match provided indices."
    ELSE ""

\* an einsum call that raised before _meta_ncon, or got the plan p
Planned(ind, cj, p, r) == [inds |-> ind, conjs |-> Some(cj), plan |-> p, res |-> r]

EinsumRaised(msg) == Planned(<<>>, <<>>, NoPlan, Raised(msg, <<>>))

\* ncon(ts, inds, conjs), lines 609-621
NconCalled(ind, cj, p) == Planned(ind, cj, p, NconPlanned(ind, p))

\* ncon(ts, inds, conjs)
Ncon(ts, ind, cj) ==
    IF NconArgsError(ts, ind) # ""
    THEN Planned(ind, cj, NoPlan, Raised(NconArgsError(ts, ind), <<>>))
    ELSE NconCalled(ind, cj, MetaNcon(ind, Some(cj)))

\* lines 552-559
EinsumLabelled(sin, sout, ord, cj, ts) ==
    IF \E i \in 1..Len(sin) : ~Labelled(sin[i], ord, sout)
    THEN EinsumRaised("order does not cover all contracted indices")
    ELSE Ncon(ts, IndsOf(SplitCommas(sin), ord, sout), cj)

\* lines 545-559
EinsumOrdered(sin, sout, ord, cj, ts) ==
    EinsumLabelled(sin, sout, IF ord.none THEN AlphabeticOrder(sin) ELSE ord.v, cj, ts)

\* lines 538-559, sin being without the stars
EinsumOut(sin, sout, ord, cj, ts) ==
    IF sout = <<>> THEN EinsumOrdered(sin, DefaultOut(sin), ord, cj, ts)
    ELSE IF Len(sout) # Cardinality(ToSet(sout)) THEN EinsumRaised("Repeated index after ->")
    ELSE EinsumOrdered(sin, sout, ord, cj, ts)

\* a star in one operand conjugates all operands
StarFlagsEvery(parts) ==
    [t \in 1..Len(parts) |-> IF \E u \in 1..Len(parts) : Count(parts[u], "*") > 0 THEN 1 ELSE 0]

\* conjs = [1 if '*' in ss else 0 for ss in sin.split(',')]
StarFlags(parts) == [t \in 1..Len(parts) |-> IF Count(parts[t], "*") > 0 THEN 1 ELSE 0]

\* lines 529-559
EinsumParts(sin, sout, ord, ts) ==
    IF \/ \E i \in 1..Len(sout) : Count(Alphabet1, sout[i]) = 0
       \/ \E i \in 1..Len(sin) : Count(Alphabet1 \o <<",", "*">>, sin[i]) = 0
    THEN EinsumRaised("Only alphabetic characters can be used to index legs.")
    ELSE EinsumOut(Without(sin, "*"), sout, ord, StarFlags(SplitCommas(sin)), ts)

\* lines 521-559, tmp being subscripts.split('->')
EinsumSplit(tmp, ord, ts) ==
    IF Len(tmp) = 1 THEN EinsumParts(tmp[1], <<>>, ord, ts)
    ELSE IF Len(tmp) = 2 THEN EinsumParts(tmp[1], tmp[2], ord, ts)
    ELSE EinsumRaised("Subscript should have at most one separator ->")

\* einsum(subscripts, *operands, order): order is None for 'Alphabetic'
Einsum(subs, ts, ord) == EinsumSplit(SplitArrows(Without(subs, " ")), ord, ts)

(***************************************************************************)
(* vdot.  The operands of the model have no hard-fused legs, so needs_mask *)
(* is False and the masks of lines 332-335 are not applied.                *)
(***************************************************************************)
RECURSIVE VdotWalk(_, _, _, _)
\* the loop of lines 306-321 from the positions ia, ib (from 0): the pairs
\* of positions (from 1) of the blocks with the same charges
VdotWalk(ta, tb, ia, ib) ==
    IF ~(ia < Len(ta) /\ ib < Len(tb)) THEN <<>>
    ELSE IF ta[ia + 1] = tb[ib + 1] THEN <<<<ia + 1, ib + 1>>>> \o VdotWalk(ta, tb, ia + 1, ib + 1)
    ELSE IF LexLess(ta[ia + 1], tb[ib + 1]) THEN VdotWalk(ta, tb, ia + 1, ib)
    ELSE VdotWalk(ta, tb, ia, ib + 1)

\* backend.apply_slice(data, sl, inter_sl): the slices of the common blocks,
\* one after the other
ApplySlice(d, slices, idx) ==
    Concat([k \in 1..Len(idx) |-> PySlice(d, slices[idx[k]].slcs[1], slices[idx[k]].slcs[2])])

\* lines 302-331 for one operand: the dimensions and the data of the blocks
\* at the positions idx
VdotSide(x, idx) == [D |-> Pick(x.struct.D, [k \in 1..Len(idx) |-> idx[k] - 1]), data |-> ApplySlice(x.data, x.slices, idx)]

\* what vdot keeps of the two operands: everything if they have the same
\* blocks and slices, else the common blocks
VdotCommon(x, y) ==
    IF x.struct.t = y.struct.t /\ x.slices = y.slices
    THEN <<[D |-> x.struct.D, data |-> x.data], [D |-> y.struct.D, data |-> y.data]>>
    ELSE With(VdotWalk(x.struct.t, y.struct.t, 0, 0), LAMBDA w :
            <<VdotSide(x, [k \in 1..Len(w) |-> w[k][1]]), VdotSide(y, [k \in 1..Len(w) |-> w[k][2]])>>)

\* backend.vdot(Adata, Bdata)
BackendVdot(Adata, Bdata) == SumSeq([i \in 1..Min(Len(Adata), Len(Bdata)) |-> Adata[i] * Bdata[i]])

\* a number was returned: by the backend, or a.zero_of_dtype()
ReturnedNumber(fn, v) ==
    [kind |-> "number", msg |-> "", ten |-> NoTensor, aux |-> <<[fn |-> fn, val |-> v]>>]

VdotZeroNever(c_n, sides) == FALSE

\* not (len(struct_a.D) > 0 and np.all(c_n == 0))
VdotZero(c_n, sides) == ~(Len(sides[1].D) > 0 /\ \A k \in 1..Len(c_n) : c_n[k] = 0)

\* lines 336-343
VdotOf(x, y, sides) ==
    IF sides[1].D # sides[2].D THEN Raised("Bond dimensions do not match.", <<>>)
    ELSE IF VdotZero(Fuse(<<x.struct.n, y.struct.n>>, <<1, 1>>, 1, Len(x.struct.n)), sides)
    THEN ReturnedNumber("zero_of_dtype", 0)
    ELSE ReturnedNumber("backend.vdot", BackendVdot(sides[1].data, sides[2].data))

\* lines 301-343, for the operands after conjugation
VdotMatched(x, y, tam) ==
    IF tam.err # "" THEN Raised(tam.err, <<>>) ELSE VdotOf(x, y, VdotCommon(x, y))

VdotConj(x, y) ==
    VdotMatched(x, y, TestAxesMatch(x, y, -1, <<PyRange(Ndim(x)), PyRange(Ndim(y))>>))

\* vdot(a, b, conj)
Vdot(x, y, cj) == VdotConj(ConjIf(cj[1], x), ConjIf(cj[2], y))

(***************************************************************************)
(* swap_gate and _meta_swap_gate                                           *)
(***************************************************************************)
\* not a.config.fermionic: False, or a tuple without flags
Falsy(cfg) == IF cfg.is_bool THEN ~cfg.val ELSE Len(cfg.flags) = 0

\* fss: all generators when fermionic is True, else the flags given
Fss(cfg, n) == IF cfg.is_bool THEN [k \in 1..Len(n) |-> TRUE] ELSE cfg.flags

SideParityOfFirst(tb, l, nsym) ==
    [k \in 1..nsym |-> IF Len(l) = 0 THEN 0 ELSE PyMod(ChargeAt(tb, l[1], nsym)[k], 2)]

\* np.sum(tset[:, l, :], axis=1) % 2 for the block of charges tb: the parity
\* of every charge component, summed over the legs in l
SideParity(tb, l, nsym) ==
    [k \in 1..nsym |-> PyMod(SumSeq([i \in 1..Len(l) |-> ChargeAt(tb, l[i], nsym)[k]]), 2)]

BothOddUnflagged(t1, t2, fss) == SumSeq([k \in 1..Len(fss) |-> t1[k] * t2[k]])

\* np.sum(t1[:, fss] * t2[:, fss], axis=1) for one block
BothOdd(t1, t2, fss) == SumSeq([k \in 1..Len(fss) |-> IF fss[k] THEN t1[k] * t2[k] ELSE 0])

\* tp % 2 of one block, tp summed over the pairs (l1, l2) of ua
SwapParity(tb, ua, fss, nsym) ==
    PyMod(SumSeq([p \in 1..(Len(ua) \div 2) |->
        BothOdd(SideParity(tb, ua[2 * p - 1], nsym), SideParity(tb, ua[2 * p], nsym), fss)]), 2)

\* len(axes) % 2 == 1
OddAxes(ua) == Len(ua) % 2 = 1

\* len(set(l1) & set(l2)) > 0 for one of the pairs
SameIndex(ua) == \E p \in 1..(Len(ua) \div 2) : ToSet(ua[2 * p - 1]) \cap ToSet(ua[2 * p]) # {}

MetaSwapGateOf(t, n, ua, fss) ==
    IF OddAxes(ua)
    THEN [err |-> "Odd number of elements in axes. Elements of axes should come in pairs.",
          tp |-> <<>>]
    ELSE IF SameIndex(ua)
    THEN [err |-> "Cannot swap the same index.", tp |-> <<>>]
    ELSE [err |-> "", tp |-> [i \in 1..Len(t) |-> SwapParity(t[i], ua, fss, Len(n))]]

\* _meta_swap_gate(t, n, mf, ndim, axes, fss): err # "" when it raises, else
\* tp, which is 1 for the blocks to negate
MetaSwapGate(t, n, mf, ndim, ax, fss) ==
    MetaSwapGateOf(t, n, [k \in 1..Len(ax) |-> UnpackAxes(mf, ax[k])], fss)

\* a.clone(): a tensor with an array of its own that holds the same elements
Clone(hp, id) == [bufs |-> Append(hp.bufs, hp.bufs[id]), res |-> Len(hp.bufs) + 1]

NegatedDownwards(d, slices, tp) ==
    [j \in 1..Len(d) |->
        IF \E i \in 1..Min(Len(slices), Len(tp)) :
              tp[i] = 1 /\ slices[i].slcs[1] < j /\ j <= slices[i].slcs[2]
        THEN Min(d[j], -d[j]) ELSE d[j]]

\* d with d[slice(*sl.slcs[0])] = -1 * d[slice(*sl.slcs[0])] for the odd blocks
Negated(d, slices, tp) ==
    [j \in 1..Len(d) |->
        IF \E i \in 1..Min(Len(slices), Len(tp)) :
              tp[i] = 1 /\ slices[i].slcs[1] < j /\ j <= slices[i].slcs[2]
        THEN -d[j] ELSE d[j]]

FlippedInput(hp, slices, tp) == [hp EXCEPT !.bufs[1] = Negated(@, slices, tp)]

\* the loop of lines 456-458 on the array of c, which is bufs[hp.res]
Flipped(hp, slices, tp) == [hp EXCEPT !.bufs[hp.res] = Negated(@, slices, tp)]

\* return c
SwapGateCloned(x, tp, hp) ==
    [r |-> Returned([x EXCEPT !.data = hp.bufs[hp.res]], <<[fn |-> "_meta_swap_gate", tp |-> tp]>>),
     heap |-> hp]

SwapGateMeta(x, id, m, hp) ==
    IF m.err # "" THEN [r |-> Raised(m.err, <<>>), heap |-> hp]
    ELSE SwapGateCloned(x, m.tp, Flipped(Clone(hp, id), x.slices, m.tp))

\* swap_gate(a, axes) for the tensor x whose array is bufs[id] and whose
\* configuration has fermionic = cfg: the outcome r and the buffers after it
SwapGate(x, id, cfg, ax, hp) ==
    IF Falsy(cfg) THEN [r |-> Returned(x, <<>>), heap |-> Aliased(hp, id)]
    ELSE SwapGateMeta(x, id,
                      MetaSwapGate(x.struct.t, x.struct.n, x.mfs, NdimN(x), ax, Fss(cfg, x.struct.n)),
                      hp)

(***************************************************************************)
(* The tensors the operations are applied to.  The inputs are drawn with   *)
(* one U(1) symmetry generator; a tensor has at most MaxBlocks blocks.     *)
(***************************************************************************)
MaxBlocks == 2

Charges == {0, 1}

Dims == {1, 2}

\* the sector table of a leg: the dimension of every charge
DimTabs == [Charges -> Dims]

\* the table of the legs whose dimensions are not varied
DefaultTab == [c \in Charges |-> c + 1]

\* a table that agrees with the default one on charge 0 only
OtherTab == [c \in Charges |-> IF c = 0 THEN 1 ELSE c + 2]

\* the flat charge tuples of ndim legs
FlatTuples(ndim) == [1..ndim -> Charges]

\* the total charge of a block with signatures s
ChargeOf(t, s) == Fuse([l \in 1..Len(s) |-> <<t[l]>>], s, 1, 1)

\* block sets that obey the charge rule: all blocks fuse to the same n
BlockSets(s) ==
    {B \in SUBSET FlatTuples(Len(s)) :
        /\ Cardinality(B) <= MaxBlocks
        /\ \A x, y \in B : ChargeOf(x, s) = ChargeOf(y, s)}

\* the meta-fusion tree of g native legs fused into one meta leg
MetaTree(g) == IF g = 1 THEN <<1>> ELSE <<g>> \o [i \in 1..g |-> 1]

\* the ways to group ndim native legs into meta legs: none fused, or one
\* pair of neighbours fused
MetaGroupings(ndim) ==
    {[i \in 1..ndim |-> 1]} \cup
    {[i \in 1..(ndim - 1) |-> IF i = j THEN 2 ELSE 1] : j \in 1..(ndim - 1)}

\* the hard-fusion descriptor of a leg: not fused (hist = 0), or two legs
\* fused into it, hist naming the sectors they had
HardFusion(name, leg, hist) ==
    [tree |-> IF hist = 0 THEN <<1>> ELSE <<2, 1, 1>>,
     fD |-> IF hist = 0 THEN <<>> ELSE <<hist>>,
     leg |-> <<name, leg>>]

\* the tensor named name with signatures s, blocks B, sector tables tabs
\* (one per leg), meta legs of sizes groups and leg 0 hard-fused if hist > 0
MkFused(name, s, B, tabs, groups, hist) ==
    LET ts == SortSet(B)
        D == [i \in 1..Len(ts) |-> [l \in 1..Len(s) |-> tabs[l][ts[i][l]]]]
        Dp == [i \in 1..Len(ts) |-> ProdSeq(D[i])]
    IN  [struct |-> [s |-> s,
                     n |-> IF B = {} THEN <<0>> ELSE ChargeOf(CHOOSE x \in B : TRUE, s),
                     diag |-> FALSE, t |-> ts, D |-> D, size |-> SumSeq(Dp)],
         slices |-> SlicesFromCumsum(Dp, D),
         mfs |-> [g \in 1..Len(groups) |-> MetaTree(groups[g])],
         hfs |-> [l \in 1..Len(s) |-> HardFusion(name, l - 1, IF l = 1 THEN hist ELSE 0)],
         isdiag |-> FALSE,
         data |-> [j \in 1..SumSeq(Dp) |-> j]]

MkTensor(name, s, B, tabs, groups) == MkFused(name, s, B, tabs, groups, 0)

\* the diagonal tensor with blocks of the charges in C, dimensions from tab,
\* and the diagonal elements data
MkDiag(name, C, tab, data) ==
    LET cs == SortSet({<<c, c>> : c \in C})
        D == [i \in 1..Len(cs) |-> <<tab[cs[i][1]], tab[cs[i][1]]>>]
        Dp == [i \in 1..Len(cs) |-> D[i][1]]
    IN  [struct |-> [s |-> <<1, -1>>, n |-> <<0>>, diag |-> TRUE, t |-> cs, D |-> D,
                     size |-> SumSeq(Dp)],
         slices |-> SlicesFromCumsum(Dp, D),
         mfs |-> <<<<1>>, <<1>>>>,
         hfs |-> [l \in 1..2 |-> HardFusion(name, l - 1, 0)],
         isdiag |-> TRUE,
         data |-> data]

\* the length of the buffer of a diagonal tensor with the charges in C
DiagSize(C, tab) == SumSeq([i \in 1..Len(SortSet({<<c>> : c \in C})) |-> tab[SortSet({<<c>> : c \in C})[i][1]]])

\* tuples of k different positions out of 0..n-1
Injections(k, n) == {x \in [1..k -> 0..(n - 1)] : \A i, j \in 1..k : x[i] = x[j] => i = j}

Ascending(x) == \A i \in 1..(Len(x) - 1) : x[i] < x[i + 1]

\* signatures of ndim legs: all equal, or alternating
Signatures(ndim) == {[l \in 1..ndim |-> 1], [l \in 1..ndim |-> IF l % 2 = 1 THEN 1 ELSE -1]}

\* sector tables of ndim legs: the default ones, but either table on leg 0
TabsVaried(ndim) == {[l \in 1..ndim |-> IF l = 1 THEN d ELSE DefaultTab] : d \in {DefaultTab, OtherTab}}

TabsDefault(ndim) == [l \in 1..ndim |-> DefaultTab]

\* the diagonal tensors with elements 1 and the dimensions of tab
DiagonalsOf(name, tab) ==
    {MkDiag(name, C, tab, [j \in 1..DiagSize(C, tab) |-> j]) : C \in SUBSET Charges}

Diagonals(name) == DiagonalsOf(name, DefaultTab)

\* the tensors with nb legs of signatures sb, with varied dimensions
DenseTargets(name, nb, sb) ==
    {MkTensor(name, sb, Bb, tb, gb) :
        Bb \in BlockSets(sb), tb \in TabsVaried(nb), gb \in MetaGroupings(nb)}

\* the tensors with up to 2 legs and varied dimensions, and the diagonal ones
Targets(name) ==
    UNION {UNION {DenseTargets(name, nb, sb) : sb \in Signatures(nb)} : nb \in 1..2}
    \cup DiagonalsOf(name, DefaultTab) \cup DiagonalsOf(name, OtherTab)

(***************************************************************************)
(* The calls: one operation applied to inputs of the families above.      *)
(***************************************************************************)
EinsumIdle == subscripts = <<>> /\ operands = <<>> /\ orderArg = None

PlannerIdle == inds = <<>> /\ conjs = <<>> /\ plan = NoPlan /\ EinsumIdle

Fresh(name) ==
    /\ op = name /\ pc = "call" /\ res = NoResult /\ aux = <<>> /\ PlannerIdle
    /\ memo = NoMemo /\ lattice = NoLattice /\ mpo = NoMpo /\ walk = NoWalk /\ targets = NoTargets

BeforeCall(name) == Fresh(name) /\ config = NotFermionic


\* tensordot(a, b, axes): a has up to 3 legs, b up to 2 legs; the dimensions
\* of leg 0 of b are varied when it is contracted; axes is any choice that
\* _test_axes_match accepts
InitTensordot ==
    /\ BeforeCall("tensordot")
    /\ conj = <<0, 0>>
    /\ \E na \in 1..3, nb \in 1..2 :
       \E sa \in IF na = 3 THEN {<<1, -1, 1>>} ELSE Signatures(na), sb \in [1..nb -> {1, -1}],
          ga \in MetaGroupings(na), gb \in MetaGroupings(nb), k \in 0..2 :
       \E ia \in Injections(k, Len(ga)), ib \in Injections(k, Len(gb)) :
            /\ Ascending(ia)
            /\ TestAxesMatch(MkTensor("a", sa, {}, TabsDefault(na), ga),
                             MkTensor("b", sb, {}, TabsDefault(nb), gb), -1, <<ia, ib>>).err = ""
            /\ axes = <<ia, ib>>
            /\ \E Ba \in BlockSets(sa), Bb \in BlockSets(sb),
                  tb \in IF 0 \in ToSet(ib) THEN TabsVaried(nb) ELSE {TabsDefault(nb)} :
                /\ a = MkTensor("a", sa, Ba, TabsDefault(na), ga)
                /\ b = MkTensor("b", sb, Bb, tb, gb)

\* tensordot(a, b, axes, conj) of two matrices along leg 1 of a and leg 0 of b,
\* one of them or both conjugated
InitTensordotConj ==
    /\ BeforeCall("tensordot")
    /\ axes = <<<<1>>, <<0>>>>
    /\ conj \in {<<1, 0>>, <<0, 1>>, <<1, 1>>}
    /\ \E sa \in Signatures(2), sb \in Signatures(2) :
       \E Ba \in BlockSets(sa), Bb \in BlockSets(sb) :
            /\ a = MkTensor("a", sa, Ba, TabsDefault(2), <<1, 1>>)
            /\ b = MkTensor("b", sb, Bb, TabsDefault(2), <<1, 1>>)

\* tensordot of two matrices whose legs 0 are hard-fused, with the same or
\* with different fusion histories
InitTensordotFused ==
    /\ BeforeCall("tensordot")
    /\ conj = <<0, 0>>
    /\ \E sa \in Signatures(2), sb \in [1..2 -> {1, -1}], k \in 1..2, hb \in 1..2 :
       \E ia \in Injections(k, 2), ib \in Injections(k, 2) :
            /\ Ascending(ia)
            /\ TestAxesMatch(MkFused("a", sa, {}, TabsDefault(2), <<1, 1>>, 1),
                             MkFused("b", sb, {}, TabsDefault(2), <<1, 1>>, hb), -1, <<ia, ib>>).err = ""
            /\ axes = <<ia, ib>>
            /\ \E Ba \in BlockSets(sa), Bb \in BlockSets(sb), tb \in TabsVaried(2) :
                /\ a = MkFused("a", sa, Ba, TabsDefault(2), <<1, 1>>, 1)
                /\ b = MkFused("b", sb, Bb, tb, <<1, 1>>, hb)

\* tensordot with a diagonal first or second operand
InitTensordotDiag ==
    /\ BeforeCall("tensordot")
    /\ conj = <<0, 0>>
    /\ \E first \in BOOLEAN :
        /\ a \in IF first THEN Diagonals("a") ELSE Targets("a")
        /\ b \in IF first THEN Targets("b") ELSE Diagonals("b")
    /\ \E k \in 0..2 :
       \E ia \in Injections(k, Ndim(a)), ib \in Injections(k, Ndim(b)) :
            /\ Ascending(ia)
            /\ axes = <<ia, ib>>
            /\ TestAxesMatch(a, b, -1, axes).err = ""

\* trace(a, axes): a has up to 3 legs, axes are one pair of legs, or none
InitTrace ==
    /\ BeforeCall("trace")
    /\ conj = <<0, 0>>
    /\ b = NoTensor
    /\ \/ \E na \in 1..3 :
          \E sa \in Signatures(na), ga \in MetaGroupings(na), k \in 0..1, hist \in 0..1 :
          \E i1 \in Injections(k, Len(ga)), i2 \in Injections(k, Len(ga)) :
          \E Ba \in BlockSets(sa), ta \in TabsVaried(na) :
            /\ a = MkFused("a", sa, Ba, ta, ga, hist)
            /\ axes = <<i1, i2>>
       \/ \E d \in Diagonals("a"), k \in 0..1 :
          \E i1 \in Injections(k, 2), i2 \in Injections(k, 2) :
            /\ a = d
            /\ axes = <<i1, i2>>

\* trace(a, axes) of two pairs of legs: a has 4 legs, of which two
\* neighbours can be fused into a meta leg, or 5 legs
InitTracePairs ==
    /\ BeforeCall("trace")
    /\ conj = <<0, 0>>
    /\ b = NoTensor
    /\ \E na \in 4..5 :
       \E sa \in Signatures(na), ga \in MetaGroupings(na) :
       \E i1 \in Injections(2, Len(ga)), i2 \in Injections(2, Len(ga)) :
       \E Ba \in IF na = 4 THEN BlockSets(sa) ELSE {{t} : t \in FlatTuples(na)} :
            /\ na = 5 => (ga = [i \in 1..na |-> 1] /\ Ascending(i1) /\ ToSet(i1) \cap ToSet(i2) = {})
            /\ na = 4 => (ToSet(i1) \cap ToSet(i2) = {} \/ (i1 = <<0, 1>> /\ i2 = <<1, 2>>))
            /\ a = MkFused("a", sa, Ba, TabsDefault(na), ga, 0)
            /\ axes = <<i1, i2>>

\* a.broadcast(b, axes=axis): a diagonal, b any target, axis any of its legs
InitBroadcast ==
    /\ BeforeCall("broadcast")
    /\ conj = <<0, 0>>
    /\ a \in Diagonals("a")
    /\ b \in Targets("b")
    /\ \E ax \in -1..(Ndim(b) - 1) : axes = <<<<ax>>, <<>>>>

\* a.apply_mask(b, axes=axis): a diagonal with elements 0 and 1
InitApplyMask ==
    /\ BeforeCall("apply_mask")
    /\ conj = <<0, 0>>
    /\ \E C \in SUBSET Charges :
       \E data \in [1..DiagSize(C, DefaultTab) -> {0, 1}] : a = MkDiag("a", C, DefaultTab, data)
    /\ b \in Targets("b")
    /\ \E ax \in -1..(Ndim(b) - 1) : axes = <<<<ax>>, <<>>>>

\* vdot(a, b, conj): a has one or two legs and the default dimensions, b is
\* any dense target
InitVdot ==
    /\ Fresh("vdot")
    /\ config = NotFermionic
    /\ axes = <<<<>>, <<>>>>
    /\ conj \in {<<1, 0>>, <<0, 0>>, <<1, 1>>}
    /\ \E na \in 1..2 : \E sa \in Signatures(na) : \E Ba \in BlockSets(sa) :
            a = MkTensor("a", sa, Ba, TabsDefault(na), [i \in 1..na |-> 1])
    /\ \E nb \in 1..2 : \E sb \in Signatures(nb) : b \in DenseTargets("b", nb, sb)

\* the tensor named name with nsym symmetry generators, signatures s, blocks
\* B (flat charge tuples, nsym integers per leg), meta legs of sizes groups;
\* the dimension of a sector follows its first charge, the elements differ
MkCharged(name, nsym, s, B, groups) ==
    LET ts == SortSet(B)
        D == [i \in 1..Len(ts) |-> [l \in 1..Len(s) |-> DefaultTab[ts[i][(l - 1) * nsym + 1]]]]
        Dp == [i \in 1..Len(ts) |-> ProdSeq(D[i])]
    IN  [struct |-> [s |-> s,
                     n |-> IF B = {} THEN [k \in 1..nsym |-> 0]
                           ELSE Fuse(ChargesOn(CHOOSE x \in B : TRUE, PyRange(Len(s)), nsym), s, 1, nsym),
                     diag |-> FALSE, t |-> ts, D |-> D, size |-> SumSeq(Dp)],
         slices |-> SlicesFromCumsum(Dp, D),
         mfs |-> [g \in 1..Len(groups) |-> MetaTree(groups[g])],
         hfs |-> [l \in 1..Len(s) |-> HardFusion(name, l - 1, 0)],
         isdiag |-> FALSE,
         data |-> [j \in 1..SumSeq(Dp) |-> j]]

\* one block, or two blocks of the same total charge
ChargedBlocks(nsym, s) ==
    UNION {{{x, y} : y \in {z \in [1..(Len(s) * nsym) -> Charges] :
                                Fuse(ChargesOn(z, PyRange(Len(s)), nsym), s, 1, nsym)
                                    = Fuse(ChargesOn(x, PyRange(Len(s)), nsym), s, 1, nsym)}}
           : x \in [1..(Len(s) * nsym) -> Charges]}

\* k groups of one leg each, out of n legs
SingleGroups(k, n) == [1..k -> {<<i>> : i \in 0..(n - 1)}]

\* the settings of fermionic for nsym generators
Fermionics(nsym) == {NotFermionic, AllFermionic} \cup {FermionicFlags(f) : f \in [1..nsym -> BOOLEAN]}

\* swap_gate(a, axes) with one generator: two legs and up to three groups, or
\* three legs, of which two neighbours can be fused, and groups of up to two
\* legs
InitSwapGate ==
    /\ Fresh("swap_gate")
    /\ conj = <<0, 0>>
    /\ b = NoTensor
    /\ \/ \E sa \in Signatures(2), k \in 0..3 :
          \E Ba \in ChargedBlocks(1, sa), ax \in SingleGroups(k, 2) :
            /\ a = MkCharged("a", 1, sa, Ba, <<1, 1>>)
            /\ axes = ax
            /\ config \in Fermionics(1)
       \/ \E ga \in MetaGroupings(3), k \in 1..2 :
          \E Ba \in ChargedBlocks(1, <<1, 1, -1>>), ax \in SingleGroups(k, Len(ga)) :
            /\ a = MkCharged("a", 1, <<1, 1, -1>>, Ba, ga)
            /\ axes = ax
            /\ config = AllFermionic
       \/ \E Ba \in ChargedBlocks(1, <<1, 1, -1>>) :
            /\ a = MkCharged("a", 1, <<1, 1, -1>>, Ba, <<1, 1, 1>>)
            /\ axes \in {<<<<0, 1>>, <<2>>>>, <<<<0>>, <<1, 2>>>>, <<<<0, 1>>, <<1, 2>>>>,
                          <<<<0>>, <<1>>, <<2>>>>}
            /\ config = AllFermionic

\* swap_gate(a, axes) of two pairs of legs of a tensor with four legs
InitSwapGatePairs ==
    /\ Fresh("swap_gate")
    /\ conj = <<0, 0>>
    /\ b = NoTensor
    /\ config = AllFermionic
    /\ \E x \in FlatTuples(4), i \in Injections(4, 4) :
            /\ a = MkCharged("a", 1, <<1, 1, -1, -1>>, {x}, <<1, 1, 1, 1>>)
            /\ axes = [k \in 1..4 |-> <<i[k]>>]
            /\ i[1] < i[2] /\ i[3] < i[4]

\* swap_gate(a, axes) with two generators: one pair of groups of the legs
\* of a tensor with two or three legs
InitSwapGateCharges ==
    /\ Fresh("swap_gate")
    /\ conj = <<0, 0>>
    /\ b = NoTensor
    /\ config \in Fermionics(2)
    /\ \/ \E Ba \in ChargedBlocks(2, <<1, -1>>) :
            /\ a = MkCharged("a", 2, <<1, -1>>, Ba, <<1, 1>>)
            /\ axes \in {<<<<0>>, <<1>>>>, <<<<1>>>>}
       \/ \E x \in [1..6 -> Charges] :
            /\ a = MkCharged("a", 2, <<1, 1, -1>>, {x}, <<1, 1, 1>>)
            /\ axes = <<<<0, 1>>, <<2>>>>

\* the call returned or raised: r is its outcome, hp the buffers after it
FinishAt(r, hp) ==
    /\ res' = [kind |-> r.kind, msg |-> r.msg, ten |-> r.ten]
    /\ aux' = r.aux
    /\ pc' = IF r.kind = "error" THEN "error" ELSE "done"
    /\ heap' = hp
    /\ UNCHANGED <<op, a, b, axes, conj, inds, conjs, subscripts, operands, orderArg, config, memo, lattice, mpo, walk, targets>>

\* the call returned a tensor with an array of its own, or raised
Finish(r) == FinishAt(r, Allocated(heap, r))

\* trace returns a itself when no leg is traced (line 361)
TraceHeap(r) == IF r.kind = "tensor" /\ Len(axes[1]) = 0 THEN Aliased(heap, 1) ELSE Allocated(heap, r)

CallTensordot ==
    /\ pc = "call"
    /\ op = "tensordot"
    /\ plan' = plan
    /\ Finish(Tensordot(a, b, axes, conj))

CallTrace ==
    /\ pc = "call"
    /\ op = "trace"
    /\ plan' = plan
    /\ With(Trace(a, axes), LAMBDA r : FinishAt(r, TraceHeap(r)))

CallBroadcast ==
    /\ pc = "call"
    /\ op = "broadcast"
    /\ plan' = plan
    /\ Finish(Broadcast(a, b, axes[1][1]))

CallApplyMask ==
    /\ pc = "call"
    /\ op = "apply_mask"
    /\ plan' = plan
    /\ Finish(ApplyMask(a, b, axes[1][1]))

CallVdot ==
    /\ pc = "call"
    /\ op = "vdot"
    /\ plan' = plan
    /\ Finish(Vdot(a, b, conj))

\* a.swap_gate(axes): a is a, its array is bufs[1]
CallSwapGate ==
    /\ pc = "call"
    /\ op = "swap_gate"
    /\ plan' = plan
    /\ With(SwapGate(a, 1, config, axes, heap), LAMBDA o : FinishAt(o.r, o.heap))

\* the returned tensor .swap_gate(axes), with the same axes
CallSwapGateAgain ==
    /\ pc = "done"
    /\ op = "swap_gate"
    /\ With(SwapGate(res.ten, heap.res, config, axes, heap), LAMBDA o :
            /\ res' = [kind |-> o.r.kind, msg |-> o.r.msg, ten |-> o.r.ten]
            /\ aux' = aux \o o.r.aux
            /\ pc' = IF o.r.kind = "error" THEN "error" ELSE "twice"
            /\ heap' = o.heap)
    /\ UNCHANGED <<op, a, b, axes, conj, inds, conjs, plan, subscripts, operands, orderArg, config, memo, lattice, mpo, walk, targets>>

\* the diagonal tensor that is nonzero exactly where x is zero
Complement(x) == [x EXCEPT !.data = [j \in 1..Len(x.data) |-> IF x.data[j] = 0 THEN 1 ELSE 0]]

\* after a.apply_mask(b, axes=axis) returned c: Complement(a).broadcast(c, axes=axis)
CallBroadcastComplement ==
    /\ pc = "done"
    /\ op = "apply_mask"
    /\ With(Broadcast(Complement(a), res.ten, axes[1][1]), LAMBDA r :
            /\ res' = [kind |-> r.kind, msg |-> r.msg, ten |-> r.ten]
            /\ aux' = aux \o r.aux
            /\ pc' = IF r.kind = "error" THEN "failed" ELSE "twice"
            /\ heap' = Allocated(heap, r))
    /\ UNCHANGED <<op, a, b, axes, conj, inds, conjs, plan, subscripts, operands, orderArg, config, memo, lattice, mpo, walk, targets>>

InitCall ==
    \/ InitTensordot
    \/ InitTensordotConj
    \/ InitTensordotFused
    \/ InitTensordotDiag
    \/ InitTrace
    \/ InitTracePairs
    \/ InitBroadcast
    \/ InitApplyMask
    \/ InitSwapGate
    \/ InitSwapGatePairs
    \/ InitSwapGateCharges
    \/ InitVdot

Init == InitCall /\ heap = HeapOf(a, b)

Next ==
    \/ CallTensordot
    \/ CallTrace
    \/ CallBroadcast
    \/ CallApplyMask
    \/ CallSwapGate
    \/ CallSwapGateAgain
    \/ CallBroadcastComplement
    \/ CallVdot

Spec == Init /\ [][Next]_vars

(***************************************************************************)
(* The calls of ncon that are checked                                      *)
(***************************************************************************)
MaxNconLegs == 4

MaxPairedLegs == 6

NconLabels == -1..3

\* the flags conjs can be: None, or one flag per tensor
ConjsFor(nt) == {None} \cup {Some(c) : c \in [1..nt -> {0, 1}]}

MaxTensorLegs == 4

\* the ways to give nt tensors between 1 and MaxTensorLegs legs each, total
\* legs in all
Shapes(nt, total) == {sh \in [1..nt -> 1..MaxTensorLegs] : SumSeq(sh) = total}

\* the labels lab of all legs, cut into the tensors of shape sh
CutInto(sh, lab) ==
    [t \in 1..Len(sh) |-> [l \in 1..sh[t] |-> lab[SumSeq(SubSeq(sh, 1, t - 1)) + l]]]

\* how often label x occurs in lab
Occurrences(lab, x) == Cardinality({i \in 1..Len(lab) : lab[i] = x})

BeforeNcon ==
    /\ op = "ncon" /\ pc = "call" /\ res = NoResult /\ aux = <<>> /\ plan = NoPlan
    /\ a = NoTensor /\ b = NoTensor /\ conj = <<0, 0>>
    /\ EinsumIdle
    /\ config = NotFermionic /\ heap = NoHeap /\ memo = NoMemo /\ lattice = NoLattice /\ mpo = NoMpo /\ walk = NoWalk /\ targets = NoTargets

\* up to three tensors with up to MaxNconLegs legs in all and any labels
InitNconAny ==
    /\ BeforeNcon
    /\ axes = <<<<>>, <<>>>>
    /\ \E nt \in 1..3, total \in 1..MaxNconLegs :
       \E sh \in Shapes(nt, total), lab \in [1..total -> NconLabels] :
            /\ inds = CutInto(sh, lab)
            /\ conjs \in IF total <= 2 THEN ConjsFor(nt) ELSE {None}

\* networks of two or three tensors with 5 to MaxPairedLegs legs in all, where
\* every positive label that is used names two legs, no other label names
\* two, and at least two pairs of legs are contracted
InitNconPaired ==
    /\ BeforeNcon
    /\ axes = <<<<>>, <<>>>>
    /\ conjs = None
    /\ \E nt \in 2..3, total \in 5..MaxPairedLegs :
       \E sh \in Shapes(nt, total), lab \in [1..total -> NconLabels] :
            /\ \A x \in NconLabels :
                Occurrences(lab, x) \in (IF x > 0 THEN {0, 2} ELSE {0, 1})
            /\ Cardinality({x \in NconLabels : x > 0 /\ Occurrences(lab, x) = 2}) >= 2
            /\ inds = CutInto(sh, lab)

\* the labels of the legs of a tensor with n legs, those listed in ax being
\* contracted: the j-th of ax gets label j, the others 0, -1, ... from -first on
EquivalentLabels(n, ax, first) ==
    [l \in 1..n |->
        IF \E j \in 1..Len(ax) : ax[j] = l - 1
        THEN CHOOSE j \in 1..Len(ax) : ax[j] = l - 1
        ELSE -(first + Cardinality({m \in 1..(l - 1) : m - 1 \notin ToSet(ax)}))]

\* two tensors labelled as tensordot(A, B, axes) contracts them
InitNconDot ==
    /\ BeforeNcon
    /\ \E na \in 1..3, nb \in 1..3, k \in 0..3 :
       \E ia \in Injections(k, na), ib \in Injections(k, nb) :
            /\ axes = <<ia, ib>>
            /\ inds = <<EquivalentLabels(na, ia, 0), EquivalentLabels(nb, ib, na - k)>>
    /\ conjs \in ConjsFor(2)

\* labels at the limits of the allowed range
InitNconRange ==
    /\ BeforeNcon
    /\ axes = <<<<>>, <<>>>>
    /\ conjs = None
    /\ \E x \in {-LabelLimit, 1 - LabelLimit, LabelLimit - 1, LabelLimit} :
       \E y \in {x, 0} : inds = <<<<x, y>>>>

CallNcon ==
    /\ pc = "call"
    /\ op = "ncon"
    /\ plan' = MetaNcon(inds, conjs)
    /\ FinishAt(NconPlanned(inds, plan'), heap)

\* the letters the subscripts are written with
Letters == {"i", "j", "h"}

\* an operand of einsum: one or two letters, with a star in front or without
Terms ==
    UNION {{w, <<"*">> \o w} : w \in UNION {[1..n -> Letters] : n \in 1..2}}

\* what follows the operands: nothing, or '->' and up to two letters
Outputs == {<<>>} \cup {<<"-", ">">> \o w : w \in UNION {[1..n -> Letters] : n \in 0..2}}

\* subscripts that are not of this form
OddSubscripts ==
    {<<"*", "i", "j", ",", " ", "j", "h", " ", "-", ">", "i", "h">>,
     <<"i", "*", "j", ",", "j", "h", "*">>,
     <<"i", "j", ",", "*", "j", "h", "-", ">", "h", "i">>,
     <<"i", "V", ",", "V", "h">>,
     <<"i", "j", ",", "j", "h", "-", ">", "i", "1">>,
     <<"i", "j", "-", "j", "h">>,
     <<"i", "j", ",", "j", "h", "-", ">", "i", "-", ">", "h">>,
     <<"I", "j", ",", "j", "i">>,
     <<"i", "j", ",", "j", "h", "-", ">", "i", "*">>,
     <<"i", "j", ",", "j", "h", "-", ">", "i", ",", "h">>,
     <<"i", "j", ",", "j", "h", " ", "-", " ", ">", "i", "h">>,
     <<"i", "j", ",", ",", "j", "h">>,
     <<>>}

BeforeEinsum ==
    /\ op = "einsum" /\ pc = "call" /\ res = NoResult /\ aux = <<>> /\ plan = NoPlan
    /\ a = NoTensor /\ b = NoTensor /\ conj = <<0, 0>> /\ axes = <<<<>>, <<>>>>
    /\ inds = <<>> /\ conjs = <<>>
    /\ config = NotFermionic /\ heap = NoHeap /\ memo = NoMemo /\ lattice = NoLattice /\ mpo = NoMpo /\ walk = NoWalk /\ targets = NoTargets

\* einsum of one or two operands that have the legs the subscripts name
InitEinsumTerms ==
    /\ BeforeEinsum
    /\ orderArg = None
    /\ \E ts \in UNION {[1..n -> Terms] : n \in 1..2}, out \in Outputs :
        /\ subscripts = (IF Len(ts) = 1 THEN ts[1] ELSE ts[1] \o <<",">> \o ts[2]) \o out
        /\ operands = [t \in 1..Len(ts) |-> Len(Without(ts[t], "*"))]

\* einsum of two matrices, with the order given or not, and with the
\* subscripts written in other ways; or of tensors that do not fit them
InitEinsumOdd ==
    /\ BeforeEinsum
    /\ \/ /\ subscripts \in OddSubscripts
          /\ operands \in {<<2, 2>>, <<2, 0, 2>>}
          /\ orderArg = None
       \/ /\ subscripts \in {<<"i", "j", ",", "j", "i">>, <<"*", "i", "j", ",", "j", "h", "-", ">", "i", "h">>}
          /\ operands \in {<<2, 2>>, <<2>>, <<2, 1>>}
          /\ orderArg \in {None, Some(<<"j">>), Some(<<"i", "j">>), Some(<<"j", "i">>), Some(<<"i">>), Some(<<>>)}

\* what einsum returned or raised is r.res; r.inds, r.conjs and r.plan are
\* what it passed to ncon and got from _meta_ncon
FinishEinsum(r) ==
    /\ inds' = r.inds
    /\ conjs' = r.conjs
    /\ plan' = r.plan
    /\ res' = [kind |-> r.res.kind, msg |-> r.res.msg, ten |-> r.res.ten]
    /\ aux' = r.res.aux
    /\ pc' = IF r.res.kind = "error" THEN "error" ELSE "done"
    /\ UNCHANGED <<op, a, b, axes, conj, subscripts, operands, orderArg, config, heap, memo, lattice, mpo, walk, targets>>

CallEinsum ==
    /\ pc = "call"
    /\ op = "einsum"
    /\ FinishEinsum(Einsum(subscripts, operands, orderArg))

\* networks of three tensors, and of two with a trace, with every choice of
\* the conjugation flags
InitNconConj ==
    /\ BeforeNcon
    /\ axes = <<<<>>, <<>>>>
    /\ inds \in {<<<<1, 0>>, <<1, 2>>, <<2, -1>>>>,
                 <<<<0, 2>>, <<1, 2>>, <<1, -1>>>>,
                 <<<<0>>, <<1>>, <<1>>>>,
                 <<<<0>>, <<-1>>, <<-2>>>>,
                 <<<<1, 2>>, <<2, 3>>, <<3, 1>>>>,
                 <<<<1, 1, 0>>, <<-1>>>>,
                 <<<<-1>>, <<1, 1, 0>>>>}
    /\ conjs \in ConjsFor(Len(inds))

InitNcon ==
    \/ InitNconAny
    \/ InitNconConj
    \/ InitNconPaired
    \/ InitNconDot
    \/ InitNconRange
    \/ InitEinsumTerms
    \/ InitEinsumOdd

NextNcon ==
    \/ CallNcon
    \/ CallEinsum

SpecNcon == InitNcon /\ [][NextNcon]_vars

(***************************************************************************)
(* The memoized functions.  _common_inds, _meta_tensordot, _meta_broadcast,*)
(* _meta_mask, _meta_trace, _meta_swap_gate and _meta_ncon carry the       *)
(* decorator lru_cache(maxsize=1024) (lines 87, 105, 187, 256, 387, 462    *)
(* and 624).  The cache of one function is followed: its entries are       *)
(* listed from the least to the most recently used one, each with the key  *)
(* (the arguments), the value that was returned, and the number id of the  *)
(* arguments in the series of calls below.                                 *)
(***************************************************************************)
MaxsizeDoubled == 2 * 1024

\* maxsize of the decorators
Maxsize == 1024

\* the arguments number k of _meta_swap_gate: one block of a tensor with
\* five legs, one pair of legs, one generator; the block, then the pair,
\* then the flag vary with k
SwapArgs(k) ==
    [t |-> <<[l \in 1..5 |-> (k \div (2 ^ (l - 1))) % 2]>>,
     n |-> <<SumSeq([l \in 1..5 |-> (k \div (2 ^ (l - 1))) % 2])>>,
     mf |-> [l \in 1..5 |-> <<1>>],
     ndim |-> 5,
     axes |-> <<<<((k \div 32) % 25) \div 5>>, <<((k \div 32) % 25) % 5>>>>,
     fss |-> <<(k \div 800) % 2 = 1>>]

\* the arguments number k of _meta_ncon: one tensor with two outgoing legs;
\* the labels, then conjs vary with k
NconArgs(k) ==
    [inds |-> <<<<-(k % 21), -((k \div 21) % 21)>>>>,
     conjs |-> IF (k \div 441) % 3 = 0 THEN None ELSE Some(<<((k \div 441) % 3) - 1>>)]

KeyOfWithoutLast(fn, k) ==
    IF fn = "_meta_swap_gate"
    THEN <<SwapArgs(k).t, SwapArgs(k).n, SwapArgs(k).mf, SwapArgs(k).ndim, SwapArgs(k).axes>>
    ELSE <<NconArgs(k).inds>>

\* the key of a call: all the arguments
KeyOf(fn, k) ==
    IF fn = "_meta_swap_gate"
    THEN <<SwapArgs(k).t, SwapArgs(k).n, SwapArgs(k).mf, SwapArgs(k).ndim, SwapArgs(k).axes,
           SwapArgs(k).fss>>
    ELSE <<NconArgs(k).inds, NconArgs(k).conjs>>

\* what the function itself does with the arguments number k
SwapOutcome(m) == [raised |-> m.err # "", msg |-> m.err, val |-> <<m.tp>>]

NconOutcome(p) == [raised |-> p.kind = "error", msg |-> p.msg, val |-> <<p.tr, p.dot, p.transpose>>]

Uncached(fn, k) ==
    IF fn = "_meta_swap_gate"
    THEN SwapOutcome(MetaSwapGate(SwapArgs(k).t, SwapArgs(k).n, SwapArgs(k).mf, SwapArgs(k).ndim,
                                  SwapArgs(k).axes, SwapArgs(k).fss))
    ELSE NconOutcome(MetaNcon(NconArgs(k).inds, NconArgs(k).conjs))

\* the position of the entry with the key, 0 if there is none
Position(c, key) ==
    With({i \in 1..Len(c) : c[i].key = key},
         LAMBDA S : IF S = {} THEN 0 ELSE CHOOSE i \in S : TRUE)

\* a hit: the stored value is returned and the entry becomes the most
\* recently used one
Hit(c, i) ==
    [cache |-> SubSeq(c, 1, i - 1) \o SubSeq(c, i + 1, Len(c)) \o <<c[i]>>,
     returned |-> [raised |-> FALSE, msg |-> "", val |-> c[i].val],
     hit |-> TRUE]

EvictedNewest(c) == IF Len(c) >= Maxsize THEN SubSeq(c, 1, Len(c) - 1) ELSE c

\* a full cache loses its least recently used entry
Evicted(c) == IF Len(c) >= Maxsize THEN Tail(c) ELSE c

\* a miss: the function is called; what it raises is raised and not stored,
\* what it returns is stored as the most recently used entry
Miss(c, k, key, r) ==
    [cache |-> IF r.raised THEN c ELSE Append(Evicted(c), [id |-> k, key |-> key, val |-> r.val]),
     returned |-> r,
     hit |-> FALSE]

\* a call of the decorated function with the arguments number k
CachedCall(c, fn, k) ==
    With(Position(c, KeyOf(fn, k)),
         LAMBDA i : IF i > 0 THEN Hit(c, i) ELSE Miss(c, k, KeyOf(fn, k), Uncached(fn, k)))

\* new arguments are called until MaxEvictions entries were evicted, and
\* MaxRecalls calls repeat earlier arguments
MaxEvictions == 3

MaxRecalls == 2

\* lastUse after the call number time of the arguments k
Used(lastUse, k, time, raised) ==
    With(IF k < Len(lastUse) THEN lastUse ELSE Append(lastUse, 0),
         LAMBDA u : IF raised THEN u ELSE [u EXCEPT ![k + 1] = time])

\* the call with the arguments number k was made: o is its outcome
MemoCalled(k, o) ==
    /\ memo' = [fn |-> memo.fn,
                cache |-> o.cache,
                clock |-> IF k = memo.clock THEN memo.clock + 1 ELSE memo.clock,
                time |-> memo.time + 1,
                lastUse |-> Used(memo.lastUse, k, memo.time + 1, o.returned.raised),
                evictions |-> IF ~o.hit /\ ~o.returned.raised /\ Len(memo.cache) >= Maxsize
                              THEN memo.evictions + 1 ELSE memo.evictions,
                recalls |-> IF k = memo.clock THEN memo.recalls ELSE memo.recalls + 1,
                last |-> <<[id |-> k, returned |-> o.returned, hit |-> o.hit]>>]
    /\ pc' = IF o.returned.raised THEN "error" ELSE "done"
    /\ UNCHANGED <<op, a, b, axes, conj, res, aux, inds, conjs, plan, subscripts, operands,
                   orderArg, config, heap, lattice, mpo, walk, targets>>

\* the next arguments of the series are called
CallMemoNext ==
    /\ op = "lru_cache"
    /\ memo.evictions < MaxEvictions
    /\ MemoCalled(memo.clock, CachedCall(memo.cache, memo.fn, memo.clock))

\* earlier arguments are called again, once the cache is about to be full:
\* those of the least and of the most recently used entry, those that come
\* before the least recently used ones in the series (they were evicted, or
\* raised), and the first ones of the series, which raise
CallMemoAgain ==
    /\ op = "lru_cache"
    /\ Len(memo.cache) >= Maxsize - 1
    /\ memo.recalls < MaxRecalls
    /\ \E k \in {memo.cache[1].id, memo.cache[Len(memo.cache)].id, 0,
                  Max(memo.cache[1].id - 1, 0)} :
            MemoCalled(k, CachedCall(memo.cache, memo.fn, k))

InitMemo ==
    /\ op = "lru_cache" /\ pc = "call" /\ res = NoResult /\ aux = <<>> /\ PlannerIdle
    /\ a = NoTensor /\ b = NoTensor /\ conj = <<0, 0>> /\ axes = <<<<>>, <<>>>>
    /\ config = NotFermionic /\ heap = NoHeap /\ lattice = NoLattice /\ mpo = NoMpo /\ walk = NoWalk /\ targets = NoTargets
    /\ \E fn \in {"_meta_swap_gate", "_meta_ncon"} : memo = [NoMemo EXCEPT !.fn = fn]

NextMemo ==
    \/ CallMemoNext
    \/ CallMemoAgain

SpecMemo == InitMemo /\ [][NextMemo]_vars

(***************************************************************************)
(* SquareLattice (src/yastn/tn/fpeps/_geometry.py).  A Site is the tuple   *)
(* <<nx, ny>>, a Bond the tuple <<site0, site1>>.                          *)
(***************************************************************************)
MaxDim == 3

Site(nx, ny) == <<nx, ny>>

Bond(site0, site1) == <<site0, site1>>

\* _periodic_dict
PeriodicDict(boundary) ==
    CASE boundary = "infinite" -> "ii"
      [] boundary = "obc" -> "oo"
      [] boundary = "cylinder" -> "po"

\* self._periodic[i]
PeriodicAt(lat, i) == IF lat.periodic = "ii" THEN "i" ELSE IF lat.periodic = "oo" THEN "o" ELSE <<"p", "o">>[i + 1]

\* self._dir
Dir(d) ==
    CASE d = "tl" -> <<-1, -1>> [] d = "t" -> <<-1, 0>> [] d = "tr" -> <<-1, 1>>
      [] d = "l" -> <<0, -1>> [] d = "r" -> <<0, 1>>
      [] d = "bl" -> <<1, -1>> [] d = "b" -> <<1, 0>> [] d = "br" -> <<1, 1>>

Outside(v, n) == v < 0 \/ v >= n

\* nn_site(site, d) for a site that is not None and d a string; None when
\* there is no neighbour
NnSite(lat, site, d) ==
    With(<<site[1] + Dir(d)[1], site[2] + Dir(d)[2]>>, LAMBDA xy :
        IF PeriodicAt(lat, 0) = "o" /\ Outside(xy[1], lat.dims[1]) THEN None
        ELSE IF PeriodicAt(lat, 1) = "o" /\ Outside(xy[2], lat.dims[2]) THEN None
        ELSE IF PeriodicAt(lat, 0) = "p" /\ Outside(xy[1], lat.dims[1])
             THEN Some(Site(PyMod(xy[1], lat.dims[1]), xy[2]))
        ELSE Some(Site(xy[1], xy[2])))

\* tuple(Site(nx, ny) for ny in range(dims[1]) for nx in range(dims[0]))
SitesOf(dims) ==
    IF dims[1] <= 0 \/ dims[2] <= 0 THEN <<>>
    ELSE [i \in 1..(dims[1] * dims[2]) |-> Site((i - 1) % dims[1], (i - 1) \div dims[1])]

\* the loop over self._sites that appends Bond(s, nn_site(s, d)) when the
\* neighbour is not None
RECURSIVE BondsAlong(_, _, _)
BondsAlong(lat, d, i) ==
    IF i > Len(lat.sites) THEN <<>>
    ELSE With(NnSite(lat, lat.sites[i], d), LAMBDA s :
            (IF s = None THEN <<>> ELSE <<Bond(lat.sites[i], s.v)>>) \o BondsAlong(lat, d, i + 1))

\* SquareLattice(dims, boundary)
SquareLatticeInit(dims, boundary) ==
    IF boundary \notin {"obc", "infinite", "cylinder"}
    THEN [NoLattice EXCEPT !.raised = "boundary should be 'obc', 'infinite', or 'cylinder'",
                           !.dims = dims, !.boundary = boundary]
    ELSE With([NoLattice EXCEPT !.made = TRUE, !.dims = dims, !.boundary = boundary,
                                !.periodic = PeriodicDict(boundary), !.sites = SitesOf(dims)],
              LAMBDA lat : [lat EXCEPT !.bonds_h = BondsAlong(lat, "r", 1),
                                       !.bonds_v = BondsAlong(lat, "b", 1)])

\* x[::-1]
Reversed(x) == [i \in 1..Len(x) |-> x[Len(x) + 1 - i]]

\* bonds(dirn, reverse)
Bonds(lat, dirn, reverse) ==
    IF dirn = "v" THEN (IF reverse THEN Reversed(lat.bonds_v) ELSE lat.bonds_v)
    ELSE IF dirn = "h" THEN (IF reverse THEN Reversed(lat.bonds_h) ELSE lat.bonds_h)
    ELSE IF reverse THEN Reversed(lat.bonds_v) \o Reversed(lat.bonds_h)
    ELSE lat.bonds_h \o lat.bonds_v

\* f_ordered(bond)
FOrdered(bond) ==
    \/ bond[1][2] < bond[2][2]
    \/ bond[1][2] = bond[2][2] /\ bond[1][1] <= bond[2][1]

\* the constructor is called with dims and boundary
CallSquareLattice ==
    /\ op = "SquareLattice" /\ pc = "call"
    /\ lattice' = SquareLatticeInit(lattice.dims, lattice.boundary)
    /\ pc' = IF lattice'.made THEN "done" ELSE "error"
    /\ UNCHANGED <<op, a, b, axes, conj, res, aux, inds, conjs, plan, subscripts, operands,
                   orderArg, config, heap, memo, mpo, walk, targets>>

\* bonds(dirn, reverse) is called on the lattice; "None" is dirn=None
CallBonds ==
    /\ op = "SquareLattice" /\ pc = "done"
    /\ \E dirn \in {"None", "h", "v"}, reverse \in BOOLEAN :
        lattice' = [lattice EXCEPT !.asked = <<dirn, reverse>>,
                                   !.returned = Bonds(lattice, dirn, reverse)]
    /\ pc' = "returned"
    /\ UNCHANGED <<op, a, b, axes, conj, res, aux, inds, conjs, plan, subscripts, operands,
                   orderArg, config, heap, memo, mpo, walk, targets>>

\* dims of 0 to MaxDim sites each way, the three boundaries and one that
\* does not exist
InitLattice ==
    /\ op = "SquareLattice" /\ pc = "call" /\ res = NoResult /\ aux = <<>> /\ PlannerIdle
    /\ a = NoTensor /\ b = NoTensor /\ conj = <<0, 0>> /\ axes = <<<<>>, <<>>>>
    /\ config = NotFermionic /\ heap = NoHeap /\ memo = NoMemo /\ mpo = NoMpo /\ walk = NoWalk /\ targets = NoTargets
    /\ \E nx \in 0..MaxDim, ny \in 0..MaxDim, boundary \in {"obc", "infinite", "cylinder", "torus"} :
        lattice = [NoLattice EXCEPT !.dims = <<nx, ny>>, !.boundary = boundary]

NextLattice ==
    \/ CallSquareLattice
    \/ CallBonds

SpecLattice == InitLattice /\ [][NextLattice]_vars

(***************************************************************************)
(* generate_product_mpo (src/yastn/tn/mps/_generate.py).  An MPO is an     *)
(* object of the store: the tuple of its site tensors, and a site tensor   *)
(* is the tuple of what was applied to the identity of the site.  A        *)
(* position is a value with its Python type: IntPos(n), FloatPos(n) for   *)
(* the float n.0, StrPos(n) for the string of n.  An operator is known by  *)
(* its signature s.                                                        *)
(***************************************************************************)
MaxSites == 2

MaxTermLen == 2

IntPos(n) == [type |-> "int", val |-> n]

FloatPos(n) == [type |-> "float", val |-> n]

StrPos(n) == [type |-> "str", val |-> n]

\* I.copy(): a new MPO object with the site tensors of I
CopyAliased(store, I) == [store |-> store, id |-> I]

Copy(store, I) == [store |-> Append(store, store[I]), id |-> Len(store) + 1]

\* zip(x[::-1], y[::-1])
ZipReversed(x, y) ==
    [i \in 1..Min(Len(x), Len(y)) |-> <<x[Len(x) + 1 - i], y[Len(y) + 1 - i]>>]

\* site < 0 or site > I.N or not isinstance(site, numbers.Integral), for a
\* site that can be compared with an int
PositionRefused(site, N) == site.val < 0 \/ site.val > N \/ site.type # "int"

\* single_mpo[n] = f(single_mpo[n]) for every n of range(site)
SwapsBelow(sites, site) ==
    [n \in 1..Len(sites) |-> IF n - 1 < site THEN Append(sites[n], "swap") ELSE sites[n]]

\* the body of the loop for one (site, op) that passed the two tests and
\* names a site of the MPO
Applied(sites, site, opr) ==
    SwapsBelow([sites EXCEPT ![site + 1] = Append(@, opr.name)], site)

Stopped(type, msg, sites) == [raised |-> type, msg |-> msg, sites |-> sites]

\* the loop over zip(term.positions[::-1], term.operators[::-1]) from its
\* i-th pair on; missing is what single_mpo[site] raises for a site that the
\* MPO does not have
RECURSIVE ProductLoop(_, _, _, _, _)
ProductLoop(sites, pairs, i, N, missing) ==
    IF i > Len(pairs) THEN Stopped("", "", sites)
    ELSE With(pairs[i], LAMBDA so :
        IF so[1].type = "str"
        THEN Stopped("TypeError", "'<' not supported between instances of 'str' and 'int'", sites)
        ELSE IF PositionRefused(so[1], N)
        THEN Stopped("YastnError", "position in Hterm should be in 0, 1, ..., N-1 ", sites)
        ELSE IF so[2].s # <<1, -1>>
        THEN Stopped("YastnError", "operator in Hterm should be a matrix with signature (1, -1)", sites)
        ELSE IF so[1].val >= Len(sites)
        THEN Stopped(missing, "single_mpo[site]", sites)
        ELSE ProductLoop(Applied(sites, so[1].val, so[2]), pairs, i + 1, N, missing))

\* the sweep that drops the leg history, and the amplitude
Finished(sites, term, amplitude) ==
    With([n \in 1..Len(sites) |-> Append(sites[n], "drop_leg_history")], LAMBDA dropped :
        IF amplitude THEN [dropped EXCEPT ![1] = Append(@, "amplitude")] ELSE dropped)

\* generate_product_mpo(I, term, amplitude): what it raised, or the MPO it
\* returned, and the store after the call
GenerateProductMpo(store, I, term, amplitude, missing) ==
    With(Copy(store, I), LAMBDA c :
    With(ProductLoop(c.store[c.id], ZipReversed(term.positions, term.operators), 1, Len(store[I]), missing),
         LAMBDA r :
            IF r.raised # ""
            THEN [raised |-> r.raised, msg |-> r.msg, returned |-> 0,
                  store |-> [c.store EXCEPT ![c.id] = r.sites]]
            ELSE [raised |-> "", msg |-> "", returned |-> c.id,
                  store |-> [c.store EXCEPT ![c.id] = Finished(r.sites, term, amplitude)]]))

CallGenerateProductMpo ==
    /\ op = "generate_product_mpo" /\ pc = "call"
    /\ \E missing \in {"YastnError", "KeyError"} :
        With(GenerateProductMpo(mpo.store, mpo.I, mpo.term, mpo.amplitude, missing), LAMBDA r :
            /\ mpo' = [mpo EXCEPT !.store = r.store, !.raised = r.raised, !.msg = r.msg,
                                  !.returned = r.returned]
            /\ pc' = IF r.raised # "" THEN "error" ELSE "done")
    /\ UNCHANGED <<op, a, b, axes, conj, res, aux, inds, conjs, plan, subscripts, operands,
                   orderArg, config, heap, memo, lattice, walk, targets>>

\* the positions a term can name for an MPO of N sites
PositionValues(N) == {IntPos(n) : n \in -1..(N + 1)} \cup {FloatPos(0), StrPos(0)}

\* an operator with the signature of a matrix, and one without
OperatorValues == {[name |-> "c", s |-> <<1, -1>>], [name |-> "v", s |-> <<1>>]}

SeqsUpTo(S, n) == UNION {[1..k -> S] : k \in 0..n}

\* an identity MPO of 1 to MaxSites sites and a term of up to MaxTermLen
\* positions and operators
InitMpo ==
    /\ op = "generate_product_mpo" /\ pc = "call" /\ res = NoResult /\ aux = <<>> /\ PlannerIdle
    /\ a = NoTensor /\ b = NoTensor /\ conj = <<0, 0>> /\ axes = <<<<>>, <<>>>>
    /\ config = NotFermionic /\ heap = NoHeap /\ memo = NoMemo /\ lattice = NoLattice /\ walk = NoWalk /\ targets = NoTargets
    /\ \E N \in 1..MaxSites, amplitude \in BOOLEAN :
       \E positions \in SeqsUpTo(PositionValues(N), MaxTermLen),
          operators \in SeqsUpTo(OperatorValues, MaxTermLen) :
            mpo = [NoMpo EXCEPT !.I = 1, !.store = <<[n \in 1..N |-> <<>>]>>,
                                !.term = [amplitude |-> 2, positions |-> positions, operators |-> operators],
                                !.amplitude = amplitude]

NextMpo == CallGenerateProductMpo

SpecMpo == InitMpo /\ [][NextMpo]_vars

(***************************************************************************)
(* The loop of vdot over the blocks of a and b (lines 302-331), step by    *)
(* step.  walk holds the local variables of vdot; pc is "loop" while the   *)
(* loop runs.                                                              *)
(***************************************************************************)
MaxWalkBlocks == 3

\* sla = tuple((stop - dp, stop) for stop, dp in zip(np.cumsum(Dpa), Dpa))
Repacked(Dp) == [k \in 1..Len(Dp) |-> <<CumSum(Dp)[k] - Dp[k], CumSum(Dp)[k]>>]

WalkStep(w) ==
    /\ walk' = w
    /\ UNCHANGED <<pc, op, a, b, axes, conj, res, aux, inds, conjs, plan, subscripts, operands,
                   orderArg, config, heap, memo, lattice, mpo, targets>>

\* a.struct.t == b.struct.t and a.slices == b.slices: lines 303-305 keep the
\* blocks and the slices as they are
KeepAll ==
    /\ op = "vdot_blocks" /\ pc = "call"
    /\ a.struct.t = b.struct.t /\ a.slices = b.slices
    /\ walk' = [walk EXCEPT !.ta = a.struct.t, !.tb = b.struct.t, !.Da = a.struct.D, !.Db = b.struct.D,
                            !.sla = [k \in 1..Len(a.slices) |-> a.slices[k].slcs],
                            !.slb = [k \in 1..Len(b.slices) |-> b.slices[k].slcs],
                            !.inter_sla = [k \in 1..Len(a.slices) |-> a.slices[k].slcs],
                            !.inter_slb = [k \in 1..Len(b.slices) |-> b.slices[k].slcs],
                            !.Dpa = [k \in 1..Len(a.slices) |-> a.slices[k].Dp],
                            !.Dpb = [k \in 1..Len(b.slices) |-> b.slices[k].Dp],
                            !.size_a = a.struct.size, !.size_b = b.struct.size]
    /\ pc' = "done"
    /\ UNCHANGED <<op, a, b, axes, conj, res, aux, inds, conjs, plan, subscripts, operands,
                   orderArg, config, heap, memo, lattice, mpo, targets>>

\* line 307
EnterLoop ==
    /\ op = "vdot_blocks" /\ pc = "call"
    /\ ~(a.struct.t = b.struct.t /\ a.slices = b.slices)
    /\ walk' = NoWalk
    /\ pc' = "loop"
    /\ UNCHANGED <<op, a, b, axes, conj, res, aux, inds, conjs, plan, subscripts, operands,
                   orderArg, config, heap, memo, lattice, mpo, targets>>

\* while ia < len(a.struct.t) and ib < len(b.struct.t)
InLoop == op = "vdot_blocks" /\ pc = "loop" /\ walk.ia < Len(a.struct.t) /\ walk.ib < Len(b.struct.t)

\* lines 309-319
TakeBoth ==
    /\ InLoop
    /\ a.struct.t[walk.ia + 1] = b.struct.t[walk.ib + 1]
    /\ WalkStep([walk EXCEPT !.ta = Append(@, a.struct.t[walk.ia + 1]),
                             !.tb = Append(@, b.struct.t[walk.ib + 1]),
                             !.Da = Append(@, a.struct.D[walk.ia + 1]),
                             !.Db = Append(@, b.struct.D[walk.ib + 1]),
                             !.Dpa = Append(@, a.slices[walk.ia + 1].Dp),
                             !.Dpb = Append(@, b.slices[walk.ib + 1].Dp),
                             !.inter_sla = Append(@, a.slices[walk.ia + 1].slcs),
                             !.inter_slb = Append(@, b.slices[walk.ib + 1].slcs),
                             !.ia = @ + 1, !.ib = @ + 1])

AheadNever(x, y) == FALSE

\* a.struct.t[ia] < b.struct.t[ib]
Ahead(x, y) == LexLess(x, y)

\* lines 320-321
SkipA ==
    /\ InLoop
    /\ a.struct.t[walk.ia + 1] # b.struct.t[walk.ib + 1]
    /\ Ahead(a.struct.t[walk.ia + 1], b.struct.t[walk.ib + 1])
    /\ WalkStep([walk EXCEPT !.ia = @ + 1])

\* lines 322-323
SkipB ==
    /\ InLoop
    /\ a.struct.t[walk.ia + 1] # b.struct.t[walk.ib + 1]
    /\ ~Ahead(a.struct.t[walk.ia + 1], b.struct.t[walk.ib + 1])
    /\ WalkStep([walk EXCEPT !.ib = @ + 1])

\* lines 324-331, when the loop has ended
Repack ==
    /\ op = "vdot_blocks" /\ pc = "loop"
    /\ ~(walk.ia < Len(a.struct.t) /\ walk.ib < Len(b.struct.t))
    /\ walk' = [walk EXCEPT !.sla = Repacked(walk.Dpa), !.slb = Repacked(walk.Dpb),
                            !.size_a = SumSeq(walk.Dpa), !.size_b = SumSeq(walk.Dpb)]
    /\ pc' = "done"
    /\ UNCHANGED <<op, a, b, axes, conj, res, aux, inds, conjs, plan, subscripts, operands,
                   orderArg, config, heap, memo, lattice, mpo, targets>>

\* the sets of up to MaxWalkBlocks blocks that fuse to one n
WalkBlockSets(s) ==
    {B \in SUBSET FlatTuples(Len(s)) :
        /\ Cardinality(B) <= MaxWalkBlocks
        /\ \A x, y \in B : ChargeOf(x, s) = ChargeOf(y, s)}

\* two tensors of four legs with the same signature; the dimensions of
\* leg 0 of b are varied
InitWalk ==
    /\ op = "vdot_blocks" /\ pc = "call" /\ res = NoResult /\ aux = <<>> /\ PlannerIdle
    /\ conj = <<0, 0>> /\ axes = <<<<>>, <<>>>>
    /\ config = NotFermionic /\ memo = NoMemo /\ lattice = NoLattice /\ mpo = NoMpo
    /\ walk = NoWalk /\ targets = NoTargets
    /\ \E Ba \in WalkBlockSets(<<1, 1, -1, -1>>), Bb \in WalkBlockSets(<<1, 1, -1, -1>>), tb \in TabsVaried(4) :
        /\ a = MkTensor("a", <<1, 1, -1, -1>>, Ba, TabsDefault(4), <<1, 1, 1, 1>>)
        /\ b = MkTensor("b", <<1, 1, -1, -1>>, Bb, tb, <<1, 1, 1, 1>>)
    /\ heap = HeapOf(a, b)

NextWalk ==
    \/ KeepAll
    \/ EnterLoop
    \/ TakeBoth
    \/ SkipA
    \/ SkipB
    \/ Repack

\* vdot runs on: a step of the loop that can be taken is taken
SpecWalk == InitWalk /\ [][NextWalk]_vars /\ WF_vars(NextWalk)

(***************************************************************************)
(* broadcast and apply_mask with the tensors of args and the argument axes *)
(* as they are passed: targets.args are the tensors, targets.axes the axes *)
(* after line 152 (238), targets.multiple_axes tells whether axes was      *)
(* iterable.  What was returned is one tensor (single) or the list results.*)
(***************************************************************************)
MaxTargets == 2

\* one turn of the loops of lines 156-173 and 242-252
OnTarget(fn, x, y, ax) == IF fn = "broadcast_args" THEN Broadcast(x, y, ax) ELSE ApplyMask(x, y, ax)

RECURSIVE EachTarget(_, _, _, _, _)
\* for b, ax in zip(args, axes): ... results.append(...); a raise ends the call
EachTarget(fn, x, args, axs, results) ==
    IF args = <<>> \/ axs = <<>> THEN [raised |-> "", results |-> results]
    ELSE With(OnTarget(fn, x, Head(args), Head(axs)), LAMBDA r :
            IF r.kind = "error" THEN [raised |-> r.msg, results |-> <<>>]
            ELSE EachTarget(fn, x, Tail(args), Tail(axs), Append(results, r.ten)))

\* results.pop()
Pop(results) == <<results[Len(results)]>>

\* line 174: return results if multiple_axes else results.pop()
BroadcastReturn(results, multiple_axes) ==
    IF multiple_axes THEN [single |-> FALSE, results |-> results]
    ELSE [single |-> TRUE, results |-> Pop(results)]

\* line 253: return results.pop() if len(results) == 1 else results
ApplyMaskReturn(results, multiple_axes) ==
    IF Len(results) = 1 THEN [single |-> TRUE, results |-> Pop(results)]
    ELSE [single |-> FALSE, results |-> results]

ReturnOf(fn, results, multiple_axes) ==
    IF fn = "broadcast_args" THEN BroadcastReturn(results, multiple_axes)
    ELSE ApplyMaskReturn(results, multiple_axes)

\* lines 151-174 and 237-253
OverTargets(fn, x, tg) ==
    IF Len(tg.axes) # Len(tg.args)
    THEN [tg EXCEPT !.raised = "There should be exactly one axis for each tensor to be projected."]
    ELSE With(EachTarget(fn, x, tg.args, tg.axes, <<>>), LAMBDA e :
            IF e.raised # "" THEN [tg EXCEPT !.raised = e.raised]
            ELSE With(ReturnOf(fn, e.results, tg.multiple_axes), LAMBDA r :
                    [tg EXCEPT !.single = r.single, !.results = r.results]))

\* every tensor that is returned holds an array the backend made
AllocatedAll(hp, tg) ==
    [bufs |-> hp.bufs \o [k \in 1..Len(tg.results) |-> tg.results[k].data],
     res |-> IF tg.single THEN Len(hp.bufs) + 1 ELSE 0]

CallOverTargets(fn) ==
    /\ pc = "call"
    /\ op = fn
    /\ targets' = OverTargets(fn, a, targets)
    /\ pc' = IF targets'.raised # "" THEN "error" ELSE "done"
    /\ heap' = AllocatedAll(heap, targets')
    /\ UNCHANGED <<a, b, op, axes, conj, res, aux, inds, conjs, plan, subscripts, operands,
                   orderArg, config, memo, lattice, mpo, walk>>

\* a.broadcast(*args, axes=axes)
CallBroadcastArgs == CallOverTargets("broadcast_args")

\* a.apply_mask(*args, axes=axes)
CallApplyMaskArgs == CallOverTargets("apply_mask_args")

\* the matrices that are passed in args: those of up to MaxBlocks blocks with
\* the default dimensions, one with other dimensions of leg 0, and one whose
\* two legs are fused into one
ArgTensors ==
    {MkTensor("b", <<1, -1>>, B, TabsDefault(2), <<1, 1>>) : B \in BlockSets(<<1, -1>>)}
    \cup {MkTensor("b", <<1, -1>>, {<<1, 1>>}, tb, <<1, 1>>) : tb \in TabsVaried(2)}
    \cup {MkTensor("b", <<1, -1>>, {<<0, 0>>}, TabsDefault(2), <<2>>)}

\* axes as it is passed: one int, or a sequence of up to MaxTargets ints
AxesArguments ==
    {[multiple_axes |-> FALSE, axes |-> <<ax>>] : ax \in 0..1}
    \cup {[multiple_axes |-> TRUE, axes |-> axs] : axs \in UNION {[1..n -> 0..1] : n \in 0..MaxTargets}}

\* a diagonal tensor with elements 0 and 1, up to MaxTargets tensors in args
InitTargets ==
    /\ op \in {"broadcast_args", "apply_mask_args"}
    /\ pc = "call" /\ res = NoResult /\ aux = <<>> /\ PlannerIdle
    /\ conj = <<0, 0>> /\ axes = <<<<>>, <<>>>> /\ b = NoTensor
    /\ config = NotFermionic /\ memo = NoMemo /\ lattice = NoLattice /\ mpo = NoMpo /\ walk = NoWalk
    /\ \E data \in [1..DiagSize(Charges, DefaultTab) -> {0, 1}] : a = MkDiag("a", Charges, DefaultTab, data)
    /\ \E args \in UNION {[1..n -> ArgTensors] : n \in 0..MaxTargets}, ax \in AxesArguments :
        targets = [args |-> args, multiple_axes |-> ax.multiple_axes, axes |-> ax.axes,
                   raised |-> "", single |-> FALSE, results |-> <<>>]
    /\ heap = [bufs |-> <<a.data>> \o [k \in 1..Len(targets.args) |-> targets.args[k].data], res |-> 0]

NextTargets ==
    \/ CallBroadcastArgs
    \/ CallApplyMaskArgs

SpecTargets == InitTargets /\ [][NextTargets]_vars

(***************************************************************************)
(* Properties                                                              *)
(***************************************************************************)
\* the entries of aux that record a call of fn
CallsOf(fn) == {i \in 1..Len(aux) : aux[i].fn = fn}

\* the positions (from 0) of the blocks of ts whose charges on the legs nin
\* occur, on the legs nin_o, in a block of ts_o
Matching(ts, nin, ts_o, nin_o) ==
    {ii \in 0..(Len(ts) - 1) :
        \E jj \in 1..Len(ts_o) : SubTuple(ts[ii + 1], nin, 1) = SubTuple(ts_o[jj], nin_o, 1)}

\* r is None if all blocks of ts match, else their positions, ascending
ExactlyMatching(r, ts, nin, ts_o, nin_o) ==
    /\ r.none <=> Matching(ts, nin, ts_o, nin_o) = 0..(Len(ts) - 1)
    /\ ~r.none =>
        /\ ToSet(r.v) = Matching(ts, nin, ts_o, nin_o)
        /\ \A i \in 1..(Len(r.v) - 1) : r.v[i] < r.v[i + 1]

\* C5: _common_inds returns, for each of the two tensors, exactly the
\* ascending indices of the blocks whose charges on the contracted legs occur
\* in a block of the other tensor, and None iff all blocks of the tensor do
C5_CommonInds ==
    \A i \in CallsOf("_common_inds") :
        /\ ExactlyMatching(aux[i].ia, aux[i].t_a, aux[i].nin_a, aux[i].t_b, aux[i].nin_b)
        /\ ExactlyMatching(aux[i].ib, aux[i].t_b, aux[i].nin_b, aux[i].t_a, aux[i].nin_a)

\* _common_inds kept the second of the two blocks of a and all blocks of b
C5_Witness ==
    \E i \in CallsOf("_common_inds") :
        /\ Len(aux[i].t_a) = 2
        /\ aux[i].ia = Some(<<1>>)
        /\ Len(aux[i].t_b) = 1
        /\ aux[i].ib = None

\* tensordot ran on two tensors that are not diagonal and returned a tensor
DenseProduct == op = "tensordot" /\ pc = "done" /\ ~a.isdiag /\ ~b.isdiag

\* the positions (from 0) not listed in ax among n positions, ascending
Others(n, ax) == FilterIn(PyRange(n), {i \in 0..(n - 1) : \A k \in 1..Len(ax) : ax[k] # i})

\* the native legs of x that are not contracted when its meta legs ax are
NativeOthers(x, ax) == Others(NdimN(x), UnpackAxes(x.mfs, ax))

\* the signature of leg l of operand x of tensordot, conjugated if flag is set
SignatureIn(x, flag, l) == IF flag = 1 THEN -x.struct.s[l + 1] ELSE x.struct.s[l + 1]

\* C1: the legs of tensordot(a, b, axes) of two non-diagonal tensors are the
\* legs of a that are not contracted, in their order in a, then those of b in
\* their order in b: the hard-fusion descriptors (which name the legs), the
\* meta-fusion trees and the signatures of the result are in that order
C1_LegOrder ==
    DenseProduct =>
        /\ res.ten.hfs = Pick(a.hfs, NativeOthers(a, axes[1])) \o Pick(b.hfs, NativeOthers(b, axes[2]))
        /\ res.ten.mfs = Pick(a.mfs, Others(Ndim(a), axes[1])) \o Pick(b.mfs, Others(Ndim(b), axes[2]))
        /\ res.ten.struct.s =
              [k \in 1..Len(NativeOthers(a, axes[1])) |-> SignatureIn(a, conj[1], NativeOthers(a, axes[1])[k])]
              \o [k \in 1..Len(NativeOthers(b, axes[2])) |-> SignatureIn(b, conj[2], NativeOthers(b, axes[2])[k])]
        /\ \A i \in 1..Len(res.ten.struct.t) :
              \E ia \in 1..Len(a.struct.t), ib \in 1..Len(b.struct.t) :
                /\ res.ten.struct.t[i] = Pick(a.struct.t[ia], NativeOthers(a, axes[1]))
                                         \o Pick(b.struct.t[ib], NativeOthers(b, axes[2]))
                /\ res.ten.struct.D[i] = Pick(a.struct.D[ia], NativeOthers(a, axes[1]))
                                         \o Pick(b.struct.D[ib], NativeOthers(b, axes[2]))

\* leg 0 of a tensor a with three legs, one of them in a fused meta leg, was
\* contracted with leg 1 of a matrix b, and the product has blocks
C1_Witness ==
    /\ DenseProduct
    /\ NdimN(a) = 3 /\ Ndim(a) = 2 /\ NdimN(b) = 2
    /\ axes = <<<<0>>, <<1>>>>
    /\ Len(res.ten.struct.t) = 1 /\ Len(a.struct.t) = 2
    /\ Len(res.ten.hfs) = 3

\* the signed sum of the charges t of the legs with signatures s
SignedSum(t, s) == <<SumSeq([l \in 1..Len(s) |-> s[l] * t[l]])>>

\* every block of the tensor x fuses to the total charge of x
ChargeRule(x) == \A i \in 1..Len(x.struct.t) : SignedSum(x.struct.t[i], x.struct.s) = x.struct.n

\* the total charge of operand x of tensordot, conjugated if flag is set
ChargeIn(x, flag) == IF flag = 1 THEN <<-x.struct.n[1]>> ELSE x.struct.n

\* C2: every block of the tensor that tensordot or trace returns fuses, with
\* the signatures of the result, to the total charge n of the result; n is
\* the sum of the total charges of the two operands (as they are contracted)
\* for tensordot, and the total charge of a for trace
C2_ChargeRule ==
    /\ (op = "tensordot" /\ pc = "done") =>
            /\ ChargeRule(res.ten)
            /\ res.ten.struct.n = <<ChargeIn(a, conj[1])[1] + ChargeIn(b, conj[2])[1]>>
    /\ (op = "trace" /\ pc = "done") =>
            /\ ChargeRule(res.ten)
            /\ res.ten.struct.n = a.struct.n

\* tensordot returned two blocks, and the total charges of a, of b and of the
\* product all differ
C2_Witness ==
    /\ DenseProduct
    /\ conj = <<0, 0>>
    /\ Len(res.ten.struct.t) = 1 /\ Len(a.struct.t) = 2
    /\ a.struct.n # <<0>> /\ b.struct.n # <<0>>
    /\ res.ten.struct.n # a.struct.n /\ res.ten.struct.n # b.struct.n

\* the calls of the four functions that build the structure of a result
MetaCalls == {i \in 1..Len(aux) : aux[i].fn \in {"_meta_tensordot", "_meta_trace", "_meta_broadcast", "_meta_mask"}}

\* the blocks of m are sorted by charge tuple, none repeated
BlocksSorted(m) == StrictlySorted(m.struct.t)

\* the slices of m, one per block, follow each other from 0 to struct.size
SlicesContiguous(m) ==
    /\ Len(m.slices) = Len(m.struct.t)
    /\ Len(m.struct.D) = Len(m.struct.t)
    /\ \A i \in 1..Len(m.slices) :
        /\ m.slices[i].slcs[1] = (IF i = 1 THEN 0 ELSE m.slices[i - 1].slcs[2])
        /\ m.slices[i].D = m.struct.D[i]
    /\ m.struct.size = (IF m.slices = <<>> THEN 0 ELSE m.slices[Len(m.slices)].slcs[2])

\* the slice of every block of m is as long as the product of its dimensions
SlicesOfProductLength(m) ==
    \A i \in 1..Len(m.slices) : m.slices[i].slcs[2] - m.slices[i].slcs[1] = ProdSeq(m.struct.D[i])

\* the slice of every block of m is as long as the product of its dimensions,
\* or as its first dimension if m is the structure of a diagonal tensor
SlicesOfStoredLength(m) ==
    \A i \in 1..Len(m.slices) :
        m.slices[i].slcs[2] - m.slices[i].slcs[1] =
            (IF m.struct.diag THEN m.struct.D[i][1] ELSE ProdSeq(m.struct.D[i]))

\* C3 as stated: the structure built by _meta_tensordot, _meta_trace,
\* _meta_broadcast and _meta_mask is sorted by charge tuple without repeats,
\* and its slices are contiguous from 0 to struct.size, each as long as the
\* product of the dimensions of its block
C3_AsStated ==
    \A i \in MetaCalls : BlocksSorted(aux[i]) /\ SlicesContiguous(aux[i]) /\ SlicesOfProductLength(aux[i])

\* C3, amended: as stated for the structure of a tensor that is not diagonal;
\* a block of a diagonal structure (built by _meta_broadcast and _meta_mask
\* for a diagonal target) has dimensions (d, d) and a slice of length d
C3_Structure ==
    \A i \in MetaCalls : BlocksSorted(aux[i]) /\ SlicesContiguous(aux[i]) /\ SlicesOfStoredLength(aux[i])

\* apply_mask cut a block of dimensions (2, 2) out of a diagonal tensor and
\* gave it a slice of length 2
C3_Witness ==
    /\ op = "apply_mask" /\ pc = "done"
    /\ \E i \in MetaCalls :
        /\ aux[i].fn = "_meta_mask"
        /\ aux[i].struct.diag
        /\ \E k \in 1..Len(aux[i].slices) :
            aux[i].struct.D[k] = <<2, 2>> /\ aux[i].slices[k].slcs[2] - aux[i].slices[k].slcs[1] = 2

\* the inputs of the calls are well-formed tensors
WellFormed(x) ==
    /\ ChargeRule(x)
    /\ BlocksSorted(x)
    /\ SlicesContiguous(x)
    /\ SlicesOfStoredLength(x)
    /\ x.struct.diag = x.isdiag

InputsWellFormed == (op # "ncon") => WellFormed(a) /\ WellFormed(b)

\* the native legs of a and of b that axes contracts
ContractedA == UnpackAxes(a.mfs, axes[1])

ContractedB == UnpackAxes(b.mfs, axes[2])

\* tensordot was called on two tensors that are not diagonal with axes that
\* pass _test_axes_match, and no mask applies: the contracted legs have the
\* same fusion history
DenseCallWithoutMask ==
    /\ op = "tensordot" /\ pc # "call"
    /\ ~a.isdiag /\ ~b.isdiag
    /\ TestAxesMatch(ConjIf(conj[1], a), ConjIf(conj[2], b), -1, axes).err = ""
    /\ \A k \in 1..Len(ContractedA) : a.hfs[ContractedA[k] + 1].fD = b.hfs[ContractedB[k] + 1].fD

\* a charge of a contracted leg occurs on that leg in a block of a and in a
\* block of b, with different dimensions
SectorDimsDiffer ==
    \E k \in 1..Len(ContractedA), i \in 1..Len(a.struct.t), j \in 1..Len(b.struct.t) :
        /\ a.struct.t[i][ContractedA[k] + 1] = b.struct.t[j][ContractedB[k] + 1]
        /\ a.struct.D[i][ContractedA[k] + 1] # b.struct.D[j][ContractedB[k] + 1]

\* a block of a and a block of b have the same charges on all contracted
\* legs, and different dimensions on one of them
MatchedDimsDiffer ==
    \E i \in 1..Len(a.struct.t), j \in 1..Len(b.struct.t) :
        /\ Pick(a.struct.t[i], ContractedA) = Pick(b.struct.t[j], ContractedB)
        /\ Pick(a.struct.D[i], ContractedA) # Pick(b.struct.D[j], ContractedB)

BondError == res.kind = "error" /\ res.msg = "Bond dimensions do not match."

\* C4 as stated: tensordot raises 'Bond dimensions do not match.' whenever a
\* sector of a contracted leg is present in both operands with different
\* dimensions and no mask applies
C4_AsStated == (DenseCallWithoutMask /\ SectorDimsDiffer) => BondError

\* C4, amended: tensordot raises 'Bond dimensions do not match.' whenever a
\* block of a and a block of b carry the same charges on all contracted legs
\* and differ in the dimension of one of them, and no mask applies
C4_BondMismatch == (DenseCallWithoutMask /\ MatchedDimsDiffer) => BondError

\* two legs were contracted, matching blocks differ in a dimension, and
\* tensordot raised the error
C4_Witness ==
    /\ DenseCallWithoutMask /\ MatchedDimsDiffer /\ BondError
    /\ Len(ContractedA) = 2
    /\ Len(a.struct.t) = 2 /\ Len(b.struct.t) = 2

(***************************************************************************)
(* The planner and ncon.                                                   *)
(***************************************************************************)
NconDone == op = "ncon" /\ pc # "call"

\* the labels of all legs, and the positive ones among them
AllLabels == Flatten(inds)

PositiveLabels == {x \in ToSet(AllLabels) : x > 0}

\* the tensors (counted from 0) that have a leg labelled x
TensorsWith(x) == {t \in 0..(Len(inds) - 1) : \E l \in 1..Len(inds[t + 1]) : inds[t + 1][l] = x}

\* axes names k different legs of each of the two tensors, and inds is the
\* labelling equivalent to tensordot(A, B, axes)
EquivalentLabelling ==
    /\ Len(inds) = 2
    /\ Len(axes[1]) = Len(axes[2])
    /\ ValidAxes(axes[1], Len(inds[1])) /\ ValidAxes(axes[2], Len(inds[2]))
    /\ inds[1] = EquivalentLabels(Len(inds[1]), axes[1], 0)
    /\ inds[2] = EquivalentLabels(Len(inds[2]), axes[2], Len(inds[1]) - Len(axes[1]))

\* the plan is the single command tensordot(A, B, axes, conj), without a
\* trace and without a transpose
SingleTensordot ==
    /\ plan.kind = "plan"
    /\ plan.tr = <<>>
    /\ Len(plan.dot) = 1
    /\ plan.dot[1].t1 = 0 /\ plan.dot[1].t2 = 1
    /\ plan.dot[1].ax1 = axes[1] /\ plan.dot[1].ax2 = axes[2]
    /\ plan.dot[1].conj = <<ConjsOrZeros(inds, conjs)[1], ConjsOrZeros(inds, conjs)[2]>>
    /\ plan.transpose.t = 0 /\ plan.transpose.axes = None /\ plan.transpose.conj = 0

\* C6: for two tensors and any axes, the planner called with the equivalent
\* labelling (the j-th contracted pair labelled j, then the remaining legs of
\* A labelled 0, -1, ... in order, then those of B) gives exactly one command,
\* tensordot(A, B, axes), no trace and no transpose; ncon then returns the
\* legs of tensordot(A, B, axes)
C6_EquivalentLabelling ==
    (NconDone /\ EquivalentLabelling) =>
        /\ SingleTensordot
        /\ res.kind = "tensor"
        /\ [i \in 1..Len(res.ten.legs) |-> <<res.ten.legs[i].ten, res.ten.legs[i].leg>>]
            = [i \in 1..Len(Nout(Len(inds[1]), axes[1])) |-> <<0, Nout(Len(inds[1]), axes[1])[i]>>]
              \o [i \in 1..Len(Nout(Len(inds[2]), axes[2])) |-> <<1, Nout(Len(inds[2]), axes[2])[i]>>]

\* two legs of each of two tensors with three legs were contracted, in an
\* order that is not the order of the legs
C6_Witness ==
    /\ NconDone /\ EquivalentLabelling /\ SingleTensordot
    /\ axes = <<<<2, 0>>, <<1, 2>>>>
    /\ Len(inds[1]) = 3 /\ Len(inds[2]) = 3

\* the labels of the legs of the result, in their order
ResultLabels == [i \in 1..Len(res.ten.legs) |-> res.ten.legs[i].lab]

\* the legs with a non-positive label, as <<tensor, leg>>
OutgoingLegs ==
    UNION {{<<t, l>> : l \in {m \in 0..(Len(inds[t + 1]) - 1) : inds[t + 1][m + 1] <= 0}} :
            t \in 0..(Len(inds) - 1)}

\* C7 as stated: of two legs of the result with labels l1 and l2 such that
\* -l1 > -l2, the one labelled l1 comes first
C7_AsStated ==
    (NconDone /\ res.kind = "tensor") =>
        \A i, j \in 1..Len(res.ten.legs) :
            -ResultLabels[i] > -ResultLabels[j] => i < j

\* C7, amended: the legs of the result of ncon are the legs with non-positive
\* labels, in ascending order of the negation of their labels: the leg
\* labelled 0 first, then -1, -2, ...
C7_OutputOrder ==
    (NconDone /\ res.kind = "tensor") =>
        /\ \A i, j \in 1..Len(res.ten.legs) :
            -ResultLabels[i] < -ResultLabels[j] => i < j
        /\ \A i, j \in 1..Len(res.ten.legs) : i < j => ResultLabels[i] # ResultLabels[j]
        /\ {<<res.ten.legs[i].ten, res.ten.legs[i].leg>> : i \in 1..Len(res.ten.legs)} = OutgoingLegs

\* the result has two legs that had to be transposed into their order
C7_Witness ==
    /\ NconDone /\ res.kind = "tensor"
    /\ ResultLabels = <<0, -1>>
    /\ plan.transpose.axes = Some(<<1, 0>>)

\* a positive label is on a number of legs other than two
SomeLabelNotTwice == \E x \in PositiveLabels : Occurrences(AllLabels, x) # 2

\* C8 as stated: the planner fails, and emits no plan, whenever a positive
\* label occurs on a number of legs other than two (once, three times, four
\* times or more)
C8_AsStated == (NconDone /\ SomeLabelNotTwice) => (plan.kind = "error" /\ res.kind = "error")

\* the part of C8 the code keeps: the planner fails whenever a positive label
\* occurs on an odd number of legs
C8_OddFails ==
    (NconDone /\ \E x \in PositiveLabels : Occurrences(AllLabels, x) % 2 = 1) =>
        (plan.kind = "error" /\ res.kind = "error")

\* a label on three legs made the planner fail
C8_OddWitness ==
    /\ NconDone /\ plan.kind = "error"
    /\ plan.msg = "Indices of legs to contract do not match."
    /\ \E x \in PositiveLabels : Occurrences(AllLabels, x) = 3

\* labels x < z both connect the same two different tensors, and a label
\* between them is used for something else
SplitPair ==
    \E x, y, z \in PositiveLabels :
        /\ x < y /\ y < z
        /\ Occurrences(AllLabels, x) = 2 /\ Occurrences(AllLabels, z) = 2
        /\ Cardinality(TensorsWith(x)) = 2
        /\ TensorsWith(z) = TensorsWith(x)
        /\ ~(Occurrences(AllLabels, y) = 2 /\ TensorsWith(y) = TensorsWith(x))

\* C9: if the positive labels that connect one pair of different tensors are
\* not consecutive in the ascending order of contraction, another contraction
\* being ordered between two of them, the planner fails and emits no plan
C9_SplitPairFails == (NconDone /\ SplitPair) => (plan.kind = "error" /\ res.kind = "error")

\* every label names two legs, labels 1 and 3 connect the same two tensors,
\* label 2 another pair, and the planner failed on the trace this leaves
C9_Witness ==
    /\ NconDone /\ SplitPair
    /\ \A x \in PositiveLabels : Occurrences(AllLabels, x) = 2
    /\ Len(inds) = 3
    /\ Cardinality(TensorsWith(2)) = 2
    /\ plan.kind = "error"
    /\ plan.msg = "Likely inefficient order of contractions. Do all traces before tensordot. Call all axes connecting two tensors one after another."

\* x < y are positive labels with no used label between them
ConsecutiveLabels(x, y) ==
    /\ x \in PositiveLabels /\ y \in PositiveLabels /\ x < y
    /\ \A w \in PositiveLabels : ~(x < w /\ w < y)

\* the labels the commands of the plan contract, command by command
PlanLabels ==
    Concat([i \in 1..Len(plan.tr) |-> plan.tr[i].labels])
    \o Concat([i \in 1..Len(plan.dot) |-> plan.dot[i].labels])

\* every command has one pair of axes for each label it contracts, in
\* ascending order of the labels
CommandsAscending ==
    /\ \A i \in 1..Len(plan.tr) :
        /\ Len(plan.tr[i].ax1) = Len(plan.tr[i].labels)
        /\ Len(plan.tr[i].ax2) = Len(plan.tr[i].labels)
        /\ \A m, n \in 1..Len(plan.tr[i].labels) : m < n => plan.tr[i].labels[m] <= plan.tr[i].labels[n]
    /\ \A i \in 1..Len(plan.dot) :
        /\ Len(plan.dot[i].ax1) = Len(plan.dot[i].labels)
        /\ Len(plan.dot[i].ax2) = Len(plan.dot[i].labels)
        /\ \A m, n \in 1..Len(plan.dot[i].labels) : m < n => plan.dot[i].labels[m] < plan.dot[i].labels[n]

\* the pairs of axes of the commands are, in their order, the legs that carry
\* the labels of the commands
PairsAsLabelled ==
    /\ Len(res.ten.pairs) = Len(PlanLabels)
    /\ \A i \in 1..Len(res.ten.pairs) :
        /\ res.ten.pairs[i][1].lab = PlanLabels[i]
        /\ res.ten.pairs[i][2].lab = PlanLabels[i]
        /\ <<res.ten.pairs[i][1].ten, res.ten.pairs[i][1].leg>>
            # <<res.ten.pairs[i][2].ten, res.ten.pairs[i][2].leg>>

\* C10: in an emitted plan, consecutive positive labels that connect the same
\* two tensors are contracted by one tensordot command, and consecutive
\* labels that contract two legs of the same tensor by one trace command;
\* every command carries the pairs of axes of its labels in ascending order
\* of the labels
C10_Batched ==
    (NconDone /\ plan.kind = "plan") =>
        /\ res.kind = "tensor"
        /\ CommandsAscending
        /\ PairsAsLabelled
        /\ \A x, y \in PositiveLabels :
            (/\ ConsecutiveLabels(x, y)
             /\ Occurrences(AllLabels, x) = 2 /\ Occurrences(AllLabels, y) = 2
             /\ TensorsWith(x) = TensorsWith(y)) =>
                IF Cardinality(TensorsWith(x)) = 1
                THEN \E i \in 1..Len(plan.tr) :
                        {x, y} \subseteq ToSet(plan.tr[i].labels)
                ELSE \E i \in 1..Len(plan.dot) :
                        {x, y} \subseteq ToSet(plan.dot[i].labels)

\* labels 1 and 2 connect two of three tensors and were contracted by one
\* tensordot command, which another command follows
C10_Witness ==
    /\ NconDone /\ plan.kind = "plan"
    /\ Len(inds) = 3
    /\ Len(plan.dot) = 2
    /\ plan.dot[1].labels = <<1, 2>>
    /\ plan.dot[1].ax1 # plan.dot[1].ax2

\* labels 1 and 2 each contract two legs of one tensor, and one trace
\* command contracts both
C10_TraceWitness ==
    /\ NconDone /\ plan.kind = "plan"
    /\ Len(plan.tr) = 1
    /\ plan.tr[1].labels = <<1, 2>>

\* the subscripts '*ij,jh->ih'
MatrixProductSubscripts == <<"*", "i", "j", ",", "j", "h", "-", ">", "i", "h">>

EinsumDone == op = "einsum" /\ pc # "call"

\* C11: einsum('*ij,jh->ih', A, B) for two matrices gives the plan and the
\* result of tensordot(A.conj(), B, axes=(1, 0)): one tensordot command of
\* leg 1 of A with leg 0 of B that conjugates A and only A, no trace and no
\* transpose; the legs of the result are leg 0 of A, conjugated, and leg 1
\* of B
C11_EinsumMatrixProduct ==
    (EinsumDone /\ subscripts = MatrixProductSubscripts /\ operands = <<2, 2>> /\ orderArg = None) =>
        /\ plan.kind = "plan"
        /\ plan.tr = <<>>
        /\ Len(plan.dot) = 1
        /\ plan.dot[1].t1 = 0 /\ plan.dot[1].t2 = 1
        /\ plan.dot[1].ax1 = <<1>> /\ plan.dot[1].ax2 = <<0>>
        /\ plan.dot[1].conj = <<1, 0>>
        /\ plan.transpose = [t |-> 0, axes |-> None, conj |-> 0]
        /\ res.kind = "tensor"
        /\ res.ten.legs = <<[lab |-> 0, ten |-> 0, leg |-> 0, cj |-> 1],
                            [lab |-> -1, ten |-> 1, leg |-> 1, cj |-> 0]>>
        /\ Len(res.ten.pairs) = 1
        /\ <<res.ten.pairs[1][1].ten, res.ten.pairs[1][1].leg, res.ten.pairs[1][1].cj>> = <<0, 1, 1>>
        /\ <<res.ten.pairs[1][2].ten, res.ten.pairs[1][2].leg, res.ten.pairs[1][2].cj>> = <<1, 0, 0>>

\* einsum('*ij,jh->ih', A, B) was called on two matrices and returned
C11_Witness ==
    /\ EinsumDone /\ subscripts = MatrixProductSubscripts /\ operands = <<2, 2>> /\ orderArg = None
    /\ pc = "done"
    /\ inds = <<<<0, 2>>, <<2, -1>>>>
    /\ conjs = Some(<<1, 0>>)

\* the permutations of 1..k
PairOrders(k) == {p \in [1..k -> 1..k] : \A i, j \in 1..k : p[i] = p[j] => i = j}

\* the pairs of legs of axes in the order p
PermutedPairs(p) == <<[i \in 1..Len(p) |-> axes[1][p[i]]], [i \in 1..Len(p) |-> axes[2][p[i]]]>>

\* the blocks of a that contribute to trace(a, ax)
ContributingBlocks(ax) ==
    TraceInd(a.struct, UnpackAxes(a.mfs, ax[1]), UnpackAxes(a.mfs, ax[2]))

\* trace(a, ax) does what the call of trace that was made did
SameTrace(r, ax) ==
    /\ r.kind = res.kind /\ r.msg = res.msg /\ r.ten = res.ten
    /\ ContributingBlocks(ax) = ContributingBlocks(axes)

\* C12: trace gives the same for the pairs of traced legs in any order: the
\* same contributing blocks, the same structure and the same values (every
\* element of the result sums the same elements of a), or the same error
C12_TracePermutation ==
    (op = "trace" /\ pc # "call" /\ Len(axes[1]) = Len(axes[2])) =>
        \A p \in PairOrders(Len(axes[1])) : SameTrace(Trace(a, PermutedPairs(p)), PermutedPairs(p))

\* two pairs of legs were traced, the first pair not in the order of the
\* legs of a, and an element of the result sums several elements of a
C12_Witness ==
    /\ op = "trace" /\ pc = "done"
    /\ Len(axes[1]) = 2 /\ axes[1][1] > axes[1][2]
    /\ Len(res.ten.struct.t) = 1 /\ Len(a.struct.t) = 2
    /\ \E i \in 1..Len(res.ten.data) : Cardinality(res.ten.data[i]) >= 4

(***************************************************************************)
(* swap_gate                                                               *)
(***************************************************************************)
\* the generators that the configuration flags fermionic
Flagged(cfg, nsym) ==
    IF cfg.is_bool THEN (IF cfg.val THEN 1..nsym ELSE {}) ELSE {k \in 1..nsym : cfg.flags[k]}

\* the native legs of the groups of axes, and the pairs they form
SwapGroups == [k \in 1..Len(axes) |-> UnpackAxes(a.mfs, axes[k])]

SwapPairs == 1..(Len(axes) \div 2)

\* the charge of generator k summed over the legs of a group, for block tb
GroupCharge(tb, legs, k) ==
    SumSeq([i \in 1..Len(legs) |-> tb[legs[i] * Len(a.struct.n) + k]])

\* the total fermionic parity of a group: all flagged components, all legs
TotalParityOdd(tb, legs) ==
    SumSeq([i \in 1..Len(legs) |->
        Cardinality({k \in Flagged(config, Len(a.struct.n)) : tb[legs[i] * Len(a.struct.n) + k] % 2 = 1})]) % 2 = 1

\* the block is negated once for every pair whose two sides are odd in total
NegatedAsStated(tb) ==
    Cardinality({p \in SwapPairs :
        TotalParityOdd(tb, SwapGroups[2 * p - 1]) /\ TotalParityOdd(tb, SwapGroups[2 * p])}) % 2 = 1

\* the block is negated once for every pair and every flagged generator
\* whose charge is odd on both sides
NegatedPerGenerator(tb) ==
    Cardinality({pk \in SwapPairs \X Flagged(config, Len(a.struct.n)) :
        /\ GroupCharge(tb, SwapGroups[2 * pk[1] - 1], pk[2]) % 2 = 1
        /\ GroupCharge(tb, SwapGroups[2 * pk[1]], pk[2]) % 2 = 1}) % 2 = 1

\* the result has the blocks of a, block i negated exactly if neg[i]
SignsAre(neg) ==
    /\ res.ten.struct = a.struct
    /\ res.ten.slices = a.slices
    /\ Len(res.ten.data) = Len(a.data)
    /\ \A i \in 1..Len(a.struct.t) :
       \A j \in (a.slices[i].slcs[1] + 1)..a.slices[i].slcs[2] :
            res.ten.data[j] = IF neg[i] THEN -a.data[j] ELSE a.data[j]

SwapGateDone == op = "swap_gate" /\ pc = "done"

\* C13 as stated: swap_gate negates a block exactly when, for an odd number
\* of pairs, both sides have odd total fermionic parity (all flagged charge
\* components summed).  It fails with two fermionic generators.
C13_AsStated ==
    SwapGateDone => SignsAre([i \in 1..Len(a.struct.t) |-> NegatedAsStated(a.struct.t[i])])

\* C13: swap_gate negates a block exactly when the number of (pair, flagged
\* generator) combinations with odd charge of that generator on both sides
\* of the pair is odd; with one flagged generator this is the total parity.
C13_PerGeneratorParity ==
    SwapGateDone => SignsAre([i \in 1..Len(a.struct.t) |-> NegatedPerGenerator(a.struct.t[i])])

\* a tensor with two fermionic generators: a block is negated although one
\* of its sides has even total parity (odd charge of both generators)
C13_Witness ==
    /\ SwapGateDone
    /\ Len(a.struct.n) = 2
    /\ Flagged(config, 2) = {1, 2}
    /\ \E i \in 1..Len(a.struct.t) :
        /\ NegatedPerGenerator(a.struct.t[i]) /\ ~NegatedAsStated(a.struct.t[i])
        /\ res.ten.data[a.slices[i].slcs[2]] = -a.data[a.slices[i].slcs[2]]

\* C14: swap_gate applied twice with the same axes gives back a: the same
\* block structure, the same slices and the same data
C14_SwapTwice ==
    (op = "swap_gate" /\ pc = "twice") =>
        /\ res.kind = "tensor"
        /\ res.ten.struct = a.struct
        /\ res.ten.slices = a.slices
        /\ res.ten.mfs = a.mfs
        /\ res.ten.data = a.data

\* swap_gate was applied twice, and the first application negated one of
\* two blocks: the tensor in between differs from a
C14_Witness ==
    /\ op = "swap_gate" /\ pc = "twice"
    /\ Len(a.struct.t) = 2
    /\ Len(heap.bufs) = 4
    /\ \E i, j \in 1..Len(a.data) : heap.bufs[3][i] = -a.data[i] /\ heap.bufs[3][j] = a.data[j]
    /\ res.ten.data = heap.bufs[4]

\* swap_gate was called with an odd number of groups of legs
SwapOddCalled == op = "swap_gate" /\ pc # "call" /\ Len(axes) % 2 = 1

SwapOddRaised ==
    /\ pc = "error"
    /\ res.kind = "error"
    /\ res.msg = "Odd number of elements in axes. Elements of axes should come in pairs."
    /\ res.ten = NoTensor

\* C15 as stated: for every tensor, swap_gate with an odd number of groups
\* of legs in axes raises the error and returns no tensor.  It fails for a
\* tensor whose configuration is not fermionic.
C15_AsStated == SwapOddCalled => SwapOddRaised

\* C15 for the tensors with a fermionic configuration: the error is raised,
\* and no array was made or written
C15_OddFailsIfFermionic ==
    (SwapOddCalled /\ ~Falsy(config)) => (SwapOddRaised /\ heap = HeapOf(a, b))

\* an odd number of groups, one of them listed twice, on a fermionic tensor
C15_OddWitness ==
    /\ SwapOddCalled /\ ~Falsy(config)
    /\ Len(axes) = 3 /\ axes[1] = axes[2]
    /\ Len(a.struct.t) = 2

(***************************************************************************)
(* apply_mask                                                              *)
(***************************************************************************)
\* the number of nonzero elements of the block of the mask a with charge c,
\* 0 if a has no such block
MaskCount(c) ==
    Cardinality({j \in 1..Len(a.data) :
        /\ a.data[j] # 0
        /\ \E i \in 1..Len(a.struct.t) :
            /\ ChargeAt(a.struct.t[i], 0, Len(a.struct.n)) = c
            /\ a.slices[i].slcs[1] < j /\ j <= a.slices[i].slcs[2]})

\* the native leg of b that is masked
MaskedLeg == BroadcastInput(axes[1][1], b.mfs, a.isdiag).axis

\* the charge of block tb of b on the masked leg
MaskedCharge(tb) == ChargeAt(tb, MaskedLeg, Len(b.struct.n))

\* the positions of the blocks of b that are kept, in the order of b
KeptByMask == SelectSeq([i \in 1..Len(b.struct.t) |-> i], LAMBDA i : MaskCount(MaskedCharge(b.struct.t[i])) > 0)

ApplyMaskDone == op = "apply_mask" /\ pc = "done"

\* the blocks of the result are the kept blocks of b, in the order of b
KeptBlocksAre ==
    res.ten.struct.t = [j \in 1..Len(KeptByMask) |-> b.struct.t[KeptByMask[j]]]

\* the masked leg of every kept block has as many elements as the mask has
\* nonzero ones; same says whether the dimension of leg l stays as it is
KeptDimsAre(same(_)) ==
    /\ Len(res.ten.struct.D) = Len(KeptByMask)
    /\ \A j \in 1..Len(KeptByMask) :
        /\ Len(res.ten.struct.D[j]) = Len(b.struct.D[KeptByMask[j]])
        /\ \A l \in 1..Len(b.struct.D[KeptByMask[j]]) :
            res.ten.struct.D[j][l] =
                IF same(l) THEN b.struct.D[KeptByMask[j]][l]
                ELSE MaskCount(MaskedCharge(b.struct.t[KeptByMask[j]]))

\* C16 as stated: apply_mask keeps exactly the blocks of b whose charge on
\* the masked leg is that of a block of a with k > 0 nonzero elements; the
\* masked leg gets dimension k and every other leg keeps its dimension.  It
\* fails for a diagonal b.
C16_AsStated ==
    ApplyMaskDone => (KeptBlocksAre /\ KeptDimsAre(LAMBDA l : l # MaskedLeg + 1))

\* C16: apply_mask keeps exactly the blocks of b whose charge on the masked
\* leg is that of a block of a with k > 0 nonzero elements, in the order of
\* b; in a kept block the masked leg gets dimension k and the other legs
\* keep their dimensions, but both legs of a diagonal b get dimension k
C16_KeptBlocks ==
    ApplyMaskDone => (KeptBlocksAre /\ KeptDimsAre(LAMBDA l : ~b.isdiag /\ l # MaskedLeg + 1))

\* leg 1 of a tensor with two blocks was masked: one block is dropped, the
\* other one is cut from two elements to one on leg 1 and keeps leg 0
C16_Witness ==
    /\ ApplyMaskDone
    /\ ~b.isdiag /\ MaskedLeg = 1
    /\ Len(b.struct.t) = 2 /\ Len(res.ten.struct.t) = 1
    /\ b.struct.D[KeptByMask[1]][2] = 2 /\ res.ten.struct.D[1][2] = 1
    /\ res.ten.struct.D[1][1] = b.struct.D[KeptByMask[1]][1]

\* the number of elements of block i of b along the masked leg
MaskedLegDim(i) == b.struct.D[i][MaskedLeg + 1]

\* the elements of block i of b that the mask keeps, in the order of the
\* block: those whose index on the masked leg is a nonzero element of the
\* block of a with the charge of the block
Survivors(i) ==
    With(BlockDims(b.struct.D[i], b.isdiag), LAMBDA D :
        [k \in 1..Len(Unmasked(a.data, D,
                      a.slices[CHOOSE m \in 1..Len(a.struct.t) :
                          ChargeAt(a.struct.t[m], 0, Len(a.struct.n)) = MaskedCharge(b.struct.t[i])].slcs,
                      BlockAxis(MaskedLeg, b.isdiag))) |->
            b.data[b.slices[i].slcs[1] +
                   Unmasked(a.data, D,
                      a.slices[CHOOSE m \in 1..Len(a.struct.t) :
                          ChargeAt(a.struct.t[m], 0, Len(a.struct.n)) = MaskedCharge(b.struct.t[i])].slcs,
                      BlockAxis(MaskedLeg, b.isdiag))[k]]])

\* the data of b minus the masked-out entries
SurvivingData == Concat([j \in 1..Len(KeptByMask) |-> Survivors(KeptByMask[j])])

\* apply_mask returned, and broadcast with the complementary mask was called
\* on what it returned
ComplementBroadcast == op = "apply_mask" /\ pc \in {"twice", "failed"}

\* C17 as stated: apply_mask followed by broadcast with the complementary
\* mask on the same leg succeeds and gives the data of b minus the
\* masked-out entries.  It fails: the broadcast raises or gives zeros.
C17_AsStated ==
    ComplementBroadcast => (pc = "twice" /\ res.ten.data = SurvivingData)

\* a kept block of b lost an element to the mask
KeptBlockCut == \E j \in 1..Len(KeptByMask) :
    MaskCount(MaskedCharge(b.struct.t[KeptByMask[j]])) < MaskedLegDim(KeptByMask[j])

\* C17: apply_mask alone gives the data of b minus the masked-out entries.
\* The broadcast with the complementary mask that follows raises 'Bond
\* dimensions do not match.' if a kept block lost an element to the mask,
\* and else returns the blocks that apply_mask returned with every element
\* zero.
C17_MaskThenComplement ==
    /\ ApplyMaskDone => res.ten.data = SurvivingData
    /\ ComplementBroadcast =>
        /\ heap.bufs[3] = SurvivingData
        /\ IF KeptBlockCut
           THEN pc = "failed" /\ res.kind = "error" /\ res.msg = "Bond dimensions do not match."
           ELSE /\ pc = "twice"
                /\ Len(res.ten.data) = Len(SurvivingData)
                /\ \A j \in 1..Len(res.ten.data) : res.ten.data[j] = 0
                /\ res.ten.struct.t = [j \in 1..Len(KeptByMask) |-> b.struct.t[KeptByMask[j]]]

\* the mask cut a block of a tensor with two legs from two elements to one
\* on leg 0, and the broadcast with the complementary mask raised
C17_Witness ==
    /\ ComplementBroadcast /\ pc = "failed"
    /\ ~b.isdiag /\ Len(b.struct.s) = 2 /\ MaskedLeg = 0
    /\ KeptBlockCut
    /\ Len(heap.bufs[3]) >= 2 /\ Len(heap.bufs[3]) < Len(b.data)

\* no kept block was cut, and the broadcast returned zeros
C17_ZeroWitness ==
    /\ ComplementBroadcast /\ pc = "twice"
    /\ Len(res.ten.data) >= 3
    /\ heap.bufs[3] = b.data

(***************************************************************************)
(* vdot                                                                    *)
(***************************************************************************)
\* the total charge and the signatures of an operand after conjugation
ConjSign(flag) == IF flag = 1 THEN -1 ELSE 1

\* the fusion of the total charges of the (possibly conjugated) operands
VdotFusedCharge ==
    [k \in 1..Len(a.struct.n) |-> ConjSign(conj[1]) * a.struct.n[k] + ConjSign(conj[2]) * b.struct.n[k]]

VdotChargeNonzero == \E k \in 1..Len(a.struct.n) : VdotFusedCharge[k] # 0

VdotNoCommonBlock == ToSet(a.struct.t) \cap ToSet(b.struct.t) = {}

VdotCalled == op = "vdot" /\ pc # "call"

VdotReturnedZero ==
    /\ pc = "done" /\ res.kind = "number"
    /\ aux = <<[fn |-> "zero_of_dtype", val |-> 0]>>

VdotComputed == pc = "done" /\ res.kind = "number" /\ aux[1].fn = "backend.vdot"

\* the backend is asked only if there is a common block and the fused
\* charge is zero
VdotComputedOnlyIf == VdotComputed => (~VdotNoCommonBlock /\ ~VdotChargeNonzero)

\* C18 as stated: vdot returns zero without raising whenever the fused charge
\* of the operands is nonzero or they have no charge tuple in common, and
\* asks the backend only if there is a common block and the fused charge is
\* zero.  It fails for operands whose legs do not match: vdot raises.
C18_AsStated ==
    VdotCalled =>
        /\ (VdotChargeNonzero \/ VdotNoCommonBlock) => VdotReturnedZero
        /\ VdotComputedOnlyIf

\* the operands have the same number of legs, fused alike, and after
\* conjugation every leg of a has the signature opposite to that of b
VdotLegsMatch ==
    /\ Len(a.struct.s) = Len(b.struct.s)
    /\ a.mfs = b.mfs
    /\ \A l \in 1..Len(a.struct.s) :
        /\ ConjSign(conj[1]) * a.struct.s[l] = -ConjSign(conj[2]) * b.struct.s[l]
        /\ a.hfs[l].tree = b.hfs[l].tree

\* C18: for operands whose legs match, vdot returns zero without raising
\* whenever the fused charge of the operands is nonzero or they have no
\* charge tuple in common; for operands whose legs do not match it raises;
\* the backend is asked only if there is a common block and the fused charge
\* is zero.
C18_ZeroWithoutRaising ==
    VdotCalled =>
        /\ (VdotLegsMatch /\ (VdotChargeNonzero \/ VdotNoCommonBlock)) => VdotReturnedZero
        /\ ~VdotLegsMatch => (pc = "error" /\ res.kind = "error")
        /\ VdotComputedOnlyIf

\* operands with two legs that match, two blocks and one block, and
\* different total charges: zero is returned
C18_Witness ==
    /\ VdotCalled /\ VdotLegsMatch
    /\ VdotChargeNonzero
    /\ Len(a.struct.t) = 2 /\ Len(b.struct.t) = 1 /\ Len(a.struct.s) = 2
    /\ VdotReturnedZero

\* the backend computed the product over the one block that an operand
\* with two blocks and an operand with one block have in common
C18_ComputedWitness ==
    /\ VdotComputed
    /\ Len(a.struct.t) = 2 /\ Len(b.struct.t) = 1
    /\ Cardinality(ToSet(a.struct.t) \cap ToSet(b.struct.t)) = 1
    /\ aux[1].val > 0

MemoCalledOnce == op = "lru_cache" /\ pc # "call"

\* the arguments that were called with success, by their number in the
\* series, and the call that used them last
UsedArgs == {k \in 1..Len(memo.lastUse) : memo.lastUse[k] > 0}

LastUseOf(i) == memo.lastUse[memo.cache[i].id + 1]

\* the cache holds the most recently used arguments, the least recently
\* used ones first: no arguments outside it were used after any in it
MostRecentlyUsed ==
    /\ \A i \in 1..Len(memo.cache) : LastUseOf(i) > 0
    /\ \A i \in 1..(Len(memo.cache) - 1) : LastUseOf(i) < LastUseOf(i + 1)
    /\ Len(memo.cache) > 0 =>
        Cardinality({k \in 1..Len(memo.lastUse) : memo.lastUse[k] >= LastUseOf(1)}) = Len(memo.cache)

C20_HitWitness ==
    /\ MemoCalledOnce
    /\ Len(memo.cache) = 1024 /\ memo.evictions >= 1
    /\ memo.last[1].hit
    /\ memo.cache[1024].id < memo.cache[1023].id

\* a call that raises while the cache is full
C20_RaiseWitness ==
    /\ MemoCalledOnce
    /\ Len(memo.cache) = 1024
    /\ memo.last[1].returned.raised /\ pc = "error"

(***************************************************************************)
(* SquareLattice                                                           *)
(***************************************************************************)
BondsReturned == op = "SquareLattice" /\ pc = "returned"

AllOrdered(bonds) == \A i \in 1..Len(bonds) : FOrdered(bonds[i])

\* C21: every bond that bonds() returns has site0 before site1 in the
\* fermionic order, whatever the dims and the boundary
C21_AsStated == BondsReturned => AllOrdered(lattice.returned)

\* the bond from the last row of a cylinder to its first row
Wraps(bond) == bond[1][1] = lattice.dims[1] - 1 /\ bond[2][1] = 0 /\ lattice.dims[1] >= 2

\* C21, what the code does: the bonds of the boundaries 'obc' and
\* 'infinite' are ordered, and on a cylinder exactly the vertical bonds
\* that wrap from the last row to the first are not
C21_OrderedUnlessWrapped ==
    BondsReturned =>
        /\ lattice.boundary \in {"obc", "infinite"} => AllOrdered(lattice.returned)
        /\ \A i \in 1..Len(lattice.returned) :
            FOrdered(lattice.returned[i]) <=> ~(lattice.boundary = "cylinder" /\ Wraps(lattice.returned[i]))

\* bonds of a lattice of 2 by 2 sites or more were returned, all ordered
C21_OrderedWitness ==
    /\ BondsReturned
    /\ lattice.dims[1] >= 2 /\ lattice.dims[2] >= 2
    /\ Len(lattice.returned) >= 4
    /\ AllOrdered(lattice.returned)

\* a cylinder returned a bond that is not ordered
C21_WrapWitness ==
    /\ BondsReturned
    /\ lattice.boundary = "cylinder"
    /\ \E i \in 1..Len(lattice.returned) : ~FOrdered(lattice.returned[i])

(***************************************************************************)
(* generate_product_mpo                                                    *)
(***************************************************************************)
ProductMpoCalled == op = "generate_product_mpo" /\ pc # "call"

SitesOfI == Len(mpo.store[mpo.I])

\* an integer in 0, 1, ..., N-1
ValidPosition(site) == site.type = "int" /\ site.val >= 0 /\ site.val <= SitesOfI - 1

IUnchanged == mpo.store[mpo.I] = [n \in 1..SitesOfI |-> <<>>]

\* C22: generate_product_mpo raises YastnError when a position of the term
\* is not an integer in 0, 1, ..., N-1 (position N included) and leaves I
\* unchanged
C22_AsStated ==
    ProductMpoCalled /\ (\E i \in 1..Len(mpo.term.positions) : ~ValidPosition(mpo.term.positions[i])) =>
        mpo.raised = "YastnError" /\ IUnchanged

\* the positions that the loop meets: those zipped with an operator
ZippedPositions ==
    {mpo.term.positions[Len(mpo.term.positions) + 1 - i] :
        i \in 1..Min(Len(mpo.term.positions), Len(mpo.term.operators))}

PositionMessage == "position in Hterm should be in 0, 1, ..., N-1 "

\* C22, what the code does: I is never changed; a call that returns met
\* only integers in 0, 1, ..., N-1; the error about the position is raised
\* only for a number that is negative, above N or not an int, and never for
\* the position N
C22_GuardOffByOne ==
    ProductMpoCalled =>
        /\ IUnchanged
        /\ pc = "done" => \A site \in ZippedPositions : ValidPosition(site)
        /\ mpo.msg = PositionMessage =>
            /\ mpo.raised = "YastnError"
            /\ \E site \in ZippedPositions :
                site.type # "str" /\ (site.val < 0 \/ site.val > SitesOfI \/ site.type = "float")
        /\ ZippedPositions = {IntPos(SitesOfI)} => mpo.msg # PositionMessage

\* the term names the position N alone, with a matrix: the test of the
\* position lets it pass
C22_PositionNWitness ==
    /\ ProductMpoCalled
    /\ mpo.term.positions = <<IntPos(SitesOfI)>>
    /\ Len(mpo.term.operators) = 1 /\ mpo.term.operators[1].s = <<1, -1>>
    /\ mpo.msg = "single_mpo[site]"

\* a position that no operator is zipped with is not looked at
C22_UncheckedWitness ==
    /\ ProductMpoCalled /\ pc = "done"
    /\ mpo.term.positions = <<IntPos(SitesOfI + 1), IntPos(0)>>
    /\ Len(mpo.term.operators) = 1

\* a string raises TypeError in the comparison site < 0
C22_TypeErrorWitness ==
    /\ ProductMpoCalled
    /\ mpo.raised = "TypeError"

\* the error about the position is raised for a position above N after
\* the operator at position 0 was applied to the copy
C22_RaisedWitness ==
    /\ ProductMpoCalled
    /\ mpo.msg = PositionMessage
    /\ mpo.term.positions = <<IntPos(SitesOfI + 1), IntPos(0)>>
    /\ IUnchanged /\ mpo.store[2] # mpo.store[1]

(***************************************************************************)
(* swap_gate with one fermionic generator and one pair                     *)
(***************************************************************************)
OneFermionicGenerator == Cardinality(Flagged(config, Len(a.struct.n))) = 1

TheFermionicGenerator == CHOOSE k \in Flagged(config, Len(a.struct.n)) : TRUE

\* the summed charge of the fermionic generator is odd on both groups
OddOnBoth(tb) ==
    /\ GroupCharge(tb, SwapGroups[1], TheFermionicGenerator) % 2 = 1
    /\ GroupCharge(tb, SwapGroups[2], TheFermionicGenerator) % 2 = 1

SwapOnePairDone == SwapGateDone /\ Len(axes) = 2 /\ OneFermionicGenerator

\* C23: with one fermionic generator and one pair of groups, swap_gate
\* negates the data of exactly the blocks whose summed charge is odd on both
\* groups; every other block keeps its data, and charges, dimensions and
\* slices of the blocks are those of a
C23_OddOddNegated ==
    SwapOnePairDone =>
        /\ SignsAre([i \in 1..Len(a.struct.t) |-> OddOnBoth(a.struct.t[i])])
        /\ res.ten.mfs = a.mfs

\* a group of two legs: a block that is odd on both groups was negated, and
\* a block whose two legs of the group are both odd, an even sum, was kept
C23_Witness ==
    /\ SwapOnePairDone
    /\ \E g \in 1..2, i, j \in 1..Len(a.struct.t) :
        /\ Len(SwapGroups[g]) = 2
        /\ OddOnBoth(a.struct.t[i])
        /\ res.ten.data[a.slices[i].slcs[2]] = -a.data[a.slices[i].slcs[2]]
        /\ ~OddOnBoth(a.struct.t[j])
        /\ \A l \in 1..2 : GroupCharge(a.struct.t[j], <<SwapGroups[g][l]>>, TheFermionicGenerator) = 1
        /\ res.ten.data[a.slices[j].slcs[2]] = a.data[a.slices[j].slcs[2]]

(***************************************************************************)
(* trace of a tensor that is not diagonal                                  *)
(***************************************************************************)
\* the native legs of the two traced groups, and the legs that stay
TracedLegs1 == UnpackAxes(a.mfs, axes[1])

TracedLegs2 == UnpackAxes(a.mfs, axes[2])

UntracedLegs == LegsNotIn(Len(a.struct.s), TracedLegs1 \o TracedLegs2)

\* the charges of block i on the first group equal those on the second,
\* position by position
Contributes(i) ==
    \A p \in 1..Len(TracedLegs1) :
        ChargeAt(a.struct.t[i], TracedLegs1[p], Len(a.struct.n))
            = ChargeAt(a.struct.t[i], TracedLegs2[p], Len(a.struct.n))

Contributing == {i \in 1..Len(a.struct.t) : Contributes(i)}

NonTracedCharge(i) == SubTuple(a.struct.t[i], UntracedLegs, Len(a.struct.n))

TracedDimsDiffer(i) == Pick(a.struct.D[i], TracedLegs1) # Pick(a.struct.D[i], TracedLegs2)

\* the positions of the array of a that block i holds, and those of the
\* result that the block of charge t holds
PositionsOf(i) == a.slices[i].slcs[1]..(a.slices[i].slcs[2] - 1)

ElementsOf(t) ==
    UNION {(res.ten.slices[g].slcs[1] + 1)..res.ten.slices[g].slcs[2] :
            g \in {h \in 1..Len(res.ten.struct.t) : res.ten.struct.t[h] = t}}

\* block i is summed into the elements E of the result
SummedInto(i, E) == \E p \in E : res.ten.data[p] \cap PositionsOf(i) # {}

TraceOfBlocks ==
    /\ op = "trace" /\ pc # "call"
    /\ ~a.isdiag /\ axes[1] # <<>>
    /\ res.msg \in {"", "Bond dimensions do not match."}

TraceWithMask == TestAxesMatch(a, a, -1, axes).needs_mask

\* C24: trace of a tensor that is not diagonal has one block for each
\* non-traced charge of the blocks whose charges on the two traced groups are
\* equal; each of those blocks is summed into the block of its non-traced
\* charge and into no other, the other blocks are summed nowhere, and the
\* dimensions D1 == D2 are compared for the contributing blocks only
C24_TraceGroups ==
    TraceOfBlocks =>
        /\ pc = "error" <=> (~TraceWithMask /\ \E i \in Contributing : TracedDimsDiffer(i))
        /\ pc = "done" =>
            /\ ToSet(res.ten.struct.t) = {NonTracedCharge(i) : i \in Contributing}
            /\ Len(res.ten.struct.t) = Cardinality({NonTracedCharge(i) : i \in Contributing})
            /\ ~TraceWithMask =>
                /\ \A i \in Contributing :
                    /\ SummedInto(i, ElementsOf(NonTracedCharge(i)))
                    /\ ~SummedInto(i, (1..Len(res.ten.data)) \ ElementsOf(NonTracedCharge(i)))
                /\ \A i \in (1..Len(a.struct.t)) \ Contributing : ~SummedInto(i, 1..Len(res.ten.data))

\* a block is summed into the result, and another block, whose traced
\* charges differ and whose traced dimensions differ, is left out
C24_Witness ==
    /\ TraceOfBlocks /\ pc = "done" /\ ~TraceWithMask
    /\ Len(res.ten.struct.t) = 1
    /\ \E i \in Contributing, k \in (1..Len(a.struct.t)) \ Contributing :
        /\ SummedInto(i, 1..Len(res.ten.data))
        /\ TracedDimsDiffer(k)

\* two blocks of the same non-traced charge are summed into one block
C24_MergedWitness ==
    /\ TraceOfBlocks /\ pc = "done" /\ ~TraceWithMask
    /\ Len(res.ten.struct.t) = 1
    /\ \E i, j \in Contributing :
        /\ i # j /\ NonTracedCharge(i) = NonTracedCharge(j)
        /\ \E p \in 1..Len(res.ten.data) :
            res.ten.data[p] \cap PositionsOf(i) # {} /\ res.ten.data[p] \cap PositionsOf(j) # {}

\* the dimensions of a contributing block differ: the error
C24_ErrorWitness ==
    /\ TraceOfBlocks /\ pc = "error"
    /\ \E i \in Contributing : TracedDimsDiffer(i)

(***************************************************************************)
(* The plan, command by command                                            *)
(***************************************************************************)
PlanEmitted == NconDone /\ plan.kind = "plan"

\* the tensors before the plan is executed, after its first k traces, and
\* after all traces and the first k tensordots
BeforePlan == [ts |-> LegsOfTensors(inds), deleted |-> {}, pairs |-> <<>>, err |-> ""]

AfterTraces(k) == ExecTraces(BeforePlan, SubSeq(plan.tr, 1, k))

AfterDots(k) == ExecDots(AfterTraces(Len(plan.tr)), SubSeq(plan.dot, 1, k))

\* the legs of the tensor in slot t of the state st
Operand(st, t) == st.ts[t + 1]

\* the axes of the k-th trace name different legs of its operand
TraceAxesValid(k) ==
    /\ Len(plan.tr[k].ax1) = Len(plan.tr[k].ax2)
    /\ ValidAxes(plan.tr[k].ax1 \o plan.tr[k].ax2, Len(Operand(AfterTraces(k - 1), plan.tr[k].t)))

\* the axes of the k-th tensordot name different legs of its two operands
DotAxesValid(k) ==
    /\ Len(plan.dot[k].ax1) = Len(plan.dot[k].ax2)
    /\ ValidAxes(plan.dot[k].ax1, Len(Operand(AfterDots(k - 1), plan.dot[k].t1)))
    /\ ValidAxes(plan.dot[k].ax2, Len(Operand(AfterDots(k - 1), plan.dot[k].t2)))

\* the legs of the product of all tensors, before the transpose
ProductLegs == Operand(AfterDots(Len(plan.dot)), plan.transpose.t)

\* the integers of S, the largest first
RECURSIVE SortedDownwards(_)
SortedDownwards(S) ==
    IF S = {} THEN <<>>
    ELSE With(CHOOSE x \in S : \A y \in S : y <= x, LAMBDA m : <<m>> \o SortedDownwards(S \ {m}))

\* the non-positive labels, the largest first
OutputLabels == SortedDownwards({x \in ToSet(AllLabels) : x <= 0})

\* the position in the product of the leg labelled x
FinalPosition(x) == (CHOOSE i \in 1..Len(ProductLegs) : ProductLegs[i].lab = x) - 1

FinalPositions == [k \in 1..Len(OutputLabels) |-> FinalPosition(OutputLabels[k])]

\* C25: in every plan the axes of every trace and tensordot are different
\* leg positions of its operands as they are when the command is executed
\* (the traces first, then the tensordots in their order); the positions
\* that the output legs have in the product are a permutation of 0..m-1, and
\* the plan has a transpose exactly if that permutation is not the identity
C25_AxesValid ==
    PlanEmitted =>
        /\ \A k \in 1..Len(plan.tr) : TraceAxesValid(k)
        /\ \A k \in 1..Len(plan.dot) : DotAxesValid(k)
        /\ {ProductLegs[i].lab : i \in 1..Len(ProductLegs)} = ToSet(OutputLabels)
        /\ Len(ProductLegs) = Len(OutputLabels)
        /\ ToSet(FinalPositions) = 0..(Len(OutputLabels) - 1)
        /\ plan.transpose.axes.none <=> FinalPositions = PyRange(Len(OutputLabels))
        /\ ~plan.transpose.axes.none => plan.transpose.axes.v = FinalPositions

\* a trace, then two tensordots, the second on the product of the first,
\* with legs that have moved, and a transpose
C25_Witness ==
    /\ PlanEmitted
    /\ Len(plan.dot) = 2
    /\ plan.dot[2].ax1 # <<>>
    /\ \E i \in 1..Len(plan.dot[2].ax1) :
        Operand(AfterDots(1), plan.dot[2].t1)[plan.dot[2].ax1[i] + 1].ten # plan.dot[2].t1
    /\ ~plan.transpose.axes.none

\* a trace, and then a tensordot of a leg that the trace has moved
C25_TraceWitness ==
    /\ PlanEmitted
    /\ Len(plan.tr) = 1 /\ Len(plan.dot) = 1
    /\ plan.dot[1].t1 = plan.tr[1].t
    /\ plan.dot[1].ax1 # <<>>
    /\ Operand(AfterDots(0), plan.dot[1].t1)[plan.dot[1].ax1[1] + 1].leg # plan.dot[1].ax1[1]

\* every positive label names two legs, every other label one leg, and all
\* labels are inside the range
ValidSpecification ==
    /\ \A x \in ToSet(AllLabels) :
        /\ -LabelLimit < x /\ x < LabelLimit
        /\ Occurrences(AllLabels, x) = (IF x > 0 THEN 2 ELSE 1)

\* the tensors that the first k tensordots have eliminated
EliminatedBy(k) == {plan.dot[j].t2 : j \in 1..k}

\* the tensordots without axes, and those with axes
OuterProducts == {k \in 1..Len(plan.dot) : plan.dot[k].ax1 = <<>>}

Contractions == (1..Len(plan.dot)) \ OuterProducts

\* C26: the plan of a valid specification of N tensors has N-1 tensordots;
\* the operands of each are two different tensors that no tensordot before
\* it has eliminated, its second operand is named by no later command, the
\* tensors that are left when all positive labels are consumed are joined to
\* tensor 0 by tensordots without axes in ascending order, and the result
\* is in slot 0
C26_Elimination ==
    (PlanEmitted /\ ValidSpecification) =>
        /\ Len(plan.dot) = Len(inds) - 1
        /\ \A k \in 1..Len(plan.dot) :
            /\ plan.dot[k].t1 # plan.dot[k].t2
            /\ {plan.dot[k].t1, plan.dot[k].t2} \subseteq (0..(Len(inds) - 1)) \ EliminatedBy(k - 1)
        /\ plan.transpose.t \notin EliminatedBy(Len(plan.dot))
        /\ plan.transpose.t = 0
        /\ \A k \in OuterProducts, j \in Contractions : j < k
        /\ \A k \in OuterProducts : plan.dot[k].t1 = 0 /\ plan.dot[k].ax2 = <<>>
        /\ \A k, j \in OuterProducts : k < j => plan.dot[k].t2 < plan.dot[j].t2
        /\ {plan.dot[k].t2 : k \in OuterProducts}
            = (1..(Len(inds) - 1)) \ {plan.dot[j].t2 : j \in Contractions}

\* three tensors: tensors 1 and 2 are contracted, and the product is then
\* joined to tensor 0, which shares no label with them
C26_Witness ==
    /\ PlanEmitted /\ ValidSpecification
    /\ Len(inds) = 3
    /\ Len(plan.dot) = 2
    /\ plan.dot[1].t1 = 1 /\ plan.dot[1].t2 = 2 /\ plan.dot[1].ax1 # <<>>
    /\ plan.dot[2].t1 = 0 /\ plan.dot[2].t2 = 1 /\ plan.dot[2].ax1 = <<>>

\* three tensors without positive labels: two outer products
C26_OuterWitness ==
    /\ PlanEmitted /\ ValidSpecification
    /\ Len(inds) = 3
    /\ OuterProducts = {1, 2}
    /\ plan.dot[1].t2 = 1 /\ plan.dot[2].t2 = 2

\* a chain: tensor 2 is contracted into tensor 1, the product into tensor 0
C26_ChainWitness ==
    /\ PlanEmitted /\ ValidSpecification
    /\ Len(plan.dot) = 2 /\ OuterProducts = {}
    /\ plan.dot[1].t1 = 1 /\ plan.dot[1].t2 = 2
    /\ plan.dot[2].t1 = 0 /\ plan.dot[2].t2 = 1

\* the conjugation flags that ncon was called with, one per tensor
Flags == ConjsOrZeros(inds, conjs)

\* tensor t is an operand of one of the first k tensordots
TookPart(t, k) == \E j \in 1..k : t \in {plan.dot[j].t1, plan.dot[j].t2}

\* the flag that a command has to pass for the tensor in slot t when k
\* tensordots came before it: the flag of the input tensor if the slot still
\* holds it, and 0 if it holds a product
FlagDue(t, k) == IF TookPart(t, k) THEN 0 ELSE Flags[t + 1]

\* C27: a plan applies the flag of every input tensor once, in the first
\* tensordot that the tensor takes part in, or in the final conjugation if
\* it takes part in none (a single tensor); a product of tensors is never
\* conjugated; so every leg of the result is conjugated exactly if the flag
\* of its tensor is 1
C27_ConjOnce ==
    PlanEmitted =>
        /\ \A k \in 1..Len(plan.dot) :
            /\ plan.dot[k].conj[1] = FlagDue(plan.dot[k].t1, k - 1)
            /\ plan.dot[k].conj[2] = FlagDue(plan.dot[k].t2, k - 1)
        /\ plan.transpose.conj = FlagDue(plan.transpose.t, Len(plan.dot))
        /\ \A t \in 0..(Len(inds) - 1) : t = plan.transpose.t \/ TookPart(t, Len(plan.dot))
        /\ Len(inds) >= 2 => plan.transpose.conj = 0
        /\ res.kind = "tensor" =>
            \A i \in 1..Len(res.ten.legs) : res.ten.legs[i].cj = Flags[res.ten.legs[i].ten + 1]

\* three tensors with the flags (1, 1, 1): tensor 0 takes part in two
\* tensordots and is conjugated in the first one only
C27_Witness ==
    /\ PlanEmitted
    /\ Len(inds) = 3 /\ Flags = <<1, 1, 1>>
    /\ Len(plan.dot) = 2
    /\ plan.dot[1].t1 = 0 /\ plan.dot[1].conj = <<1, 1>>
    /\ plan.dot[2].t1 = 0 /\ plan.dot[2].conj = <<0, 1>>
    /\ plan.dot[2].ax1 # <<>>
    /\ plan.transpose.conj = 0

\* a single tensor with the flag 1 is conjugated at the end
C27_SingleWitness ==
    /\ PlanEmitted
    /\ Len(inds) = 1 /\ Flags = <<1>>
    /\ plan.dot = <<>>
    /\ plan.transpose.conj = 1
    /\ res.kind = "tensor" /\ Len(res.ten.legs) >= 1

(***************************************************************************)
(* The loop of vdot                                                        *)
(***************************************************************************)
\* the charge tuples that both tensors have, ascending
CommonCharges == SortSet(ToSet(a.struct.t) \cap ToSet(b.struct.t))

\* the position of the block of charge t in the tensor x
BlockAt(x, t) == CHOOSE i \in 1..Len(x.struct.t) : x.struct.t[i] = t

\* the selected blocks of x are those of the common charges, with their
\* dimensions and the slices they have in x
SelectedFrom(x, t, D, Dp, inter_sl) ==
    /\ t = CommonCharges
    /\ Len(D) = Len(t) /\ Len(Dp) = Len(t) /\ Len(inter_sl) = Len(t)
    /\ \A k \in 1..Len(t) :
        /\ D[k] = x.struct.D[BlockAt(x, t[k])]
        /\ Dp[k] = x.slices[BlockAt(x, t[k])].Dp
        /\ inter_sl[k] = x.slices[BlockAt(x, t[k])].slcs

\* the slices sl have the lengths Dp and follow each other from 0 on
Contiguous(sl, Dp, size) ==
    /\ Len(sl) = Len(Dp)
    /\ \A k \in 1..Len(sl) :
        /\ sl[k][1] = (IF k = 1 THEN 0 ELSE sl[k - 1][2])
        /\ sl[k][2] = sl[k][1] + Dp[k]
    /\ size = (IF sl = <<>> THEN 0 ELSE sl[Len(sl)][2])

LoopEnded == op = "vdot_blocks" /\ pc = "done"

Selection ==
    /\ SelectedFrom(a, walk.ta, walk.Da, walk.Dpa, walk.inter_sla)
    /\ SelectedFrom(b, walk.tb, walk.Db, walk.Dpb, walk.inter_slb)
    /\ Contiguous(walk.sla, walk.Dpa, walk.size_a)
    /\ Contiguous(walk.slb, walk.Dpb, walk.size_b)
    /\ walk.ta = [k \in 1..Len(VdotWalk(a.struct.t, b.struct.t, 0, 0)) |->
                    a.struct.t[VdotWalk(a.struct.t, b.struct.t, 0, 0)[k][1]]]

\* C28: for two sorted block lists without duplicates the loop of vdot ends,
\* and then it has selected exactly the charge tuples that both tensors
\* have, in ascending order, each block of a together with the block of b
\* of the same charges, and the selected blocks are given slices that follow
\* each other from 0 on
C28_LoopSelects == <>[](LoopEnded /\ Selection)

\* the loop ended after it skipped a block of a and a block of b and took
\* two blocks of both; the second one moves to another slice
C28_Witness ==
    /\ LoopEnded /\ Selection
    /\ walk.ia = 3 /\ walk.ib = 3
    /\ Len(walk.ta) = 2
    /\ walk.inter_sla # walk.sla
    /\ walk.inter_slb # walk.slb

(***************************************************************************)
(* The characters of the subscripts of einsum                              *)
(***************************************************************************)
\* the ASCII letters A-Z and a-z
AsciiLetters ==
    {"A", "B", "C", "D", "E", "F", "G", "H", "I", "J", "K", "L", "M", "N", "O", "P", "Q",
     "R", "S", "T", "U", "V", "W", "X", "Y", "Z", "a", "b", "c", "d", "e", "f", "g", "h",
     "i", "j", "k", "l", "m", "n", "o", "p", "q", "r", "s", "t", "u", "v", "w", "x", "y",
     "z"}

EinsumCalled == op = "einsum" /\ pc # "call"

NotAlphabetic ==
    res.kind = "error" /\ res.msg = "Only alphabetic characters can be used to index legs."

\* the subscripts without the spaces, cut at the separators
SubscriptParts == SplitArrows(Without(subscripts, " "))

\* the characters of the subscripts that belong to no separator '->'
SubscriptCharacters == ToSet(Concat(SubscriptParts))

\* C29: einsum takes every ASCII letter as a leg index: it raises 'Only
\* alphabetic characters can be used to index legs.' only if the subscripts
\* hold a character that is not a letter, ',', '*', a space or part of the
\* separator '->'
C29_AsStated ==
    (EinsumCalled /\ NotAlphabetic)
        => ~(SubscriptCharacters \subseteq AsciiLetters \cup {",", "*"})

\* C29, what the code does: with at most one separator, the message is
\* raised exactly if the input side holds a character that is not a letter
\* other than 'V', ',' or '*', or the output side holds a character that is
\* not a letter other than 'V'
C29_LettersButV ==
    (EinsumCalled /\ Len(SubscriptParts) <= 2)
        => (NotAlphabetic <=>
                \/ ~(ToSet(SubscriptParts[1]) \subseteq (AsciiLetters \ {"V"}) \cup {",", "*"})
                \/ /\ Len(SubscriptParts) = 2
                   /\ ~(ToSet(SubscriptParts[2]) \subseteq AsciiLetters \ {"V"}))

\* einsum refused subscripts whose only unusual character is the letter 'V'
C29_VWitness ==
    /\ EinsumCalled /\ NotAlphabetic
    /\ SubscriptCharacters \subseteq AsciiLetters \cup {","}
    /\ "V" \in SubscriptCharacters

\* einsum took a capital letter other than 'V' as a leg index
C29_CapitalWitness ==
    /\ EinsumCalled /\ res.kind # "error"
    /\ "I" \in SubscriptCharacters

\* einsum refused subscripts because of a digit
C29_DigitWitness ==
    /\ EinsumCalled /\ NotAlphabetic
    /\ "1" \in SubscriptCharacters

\* einsum refused a star on the output side
C29_OutputStarWitness ==
    /\ EinsumCalled /\ NotAlphabetic
    /\ SubscriptCharacters \subseteq AsciiLetters \cup {",", "*"}
    /\ "V" \notin SubscriptCharacters

(***************************************************************************)
(* What broadcast and apply_mask return for the tensors of args            *)
(***************************************************************************)
TargetsReturned == op \in {"broadcast_args", "apply_mask_args"} /\ pc = "done"

\* the tensor that the call makes of the tensor number k of args
ResultFor(k) == OnTarget(op, a, targets.args[k], targets.axes[k]).ten

\* one result for every tensor of args, in the order of args
OnePerTarget ==
    /\ Len(targets.results) = Len(targets.args)
    /\ \A k \in 1..Len(targets.args) : targets.results[k] = ResultFor(k)

\* C30: broadcast and apply_mask return one tensor when axes is one int,
\* and a sequence with one result for every tensor of args, in the order
\* of args, when axes is a sequence, also a sequence of length one
C30_AsStated ==
    TargetsReturned =>
        /\ targets.single = ~targets.multiple_axes
        /\ OnePerTarget

\* C30, what the code does: both return one result for every tensor of
\* args in the order of args; broadcast returns a single tensor exactly
\* when axes is one int, apply_mask exactly when there is one tensor in
\* args, however axes is given
C30_ReturnShape ==
    TargetsReturned =>
        /\ OnePerTarget
        /\ op = "broadcast_args" => targets.single = ~targets.multiple_axes
        /\ op = "apply_mask_args" => targets.single = (Len(targets.args) = 1)

\* apply_mask with a sequence of one axis returned the tensor, not a list
C30_Witness ==
    /\ TargetsReturned /\ op = "apply_mask_args"
    /\ targets.multiple_axes /\ Len(targets.axes) = 1
    /\ targets.single
    /\ Len(targets.results[1].struct.t) > 0

\* broadcast with a sequence of one axis returned a list of one tensor
C30_BroadcastListWitness ==
    /\ TargetsReturned /\ op = "broadcast_args"
    /\ targets.multiple_axes /\ Len(targets.axes) = 1
    /\ ~targets.single
    /\ Len(targets.results[1].struct.t) > 0

\* both returned a list of two different tensors
C30_TwoWitness(fn) ==
    /\ TargetsReturned /\ op = fn
    /\ Len(targets.results) = 2 /\ ~targets.single
    /\ targets.results[1] # targets.results[2]
    /\ targets.axes[1] # targets.axes[2]

C30_BroadcastTwoWitness == C30_TwoWitness("broadcast_args")

C30_ApplyMaskTwoWitness == C30_TwoWitness("apply_mask_args")

\* axes was one int and one tensor came back
C30_IntWitness ==
    /\ TargetsReturned /\ ~targets.multiple_axes /\ targets.single
    /\ targets.results[1].data # targets.args[1].data

\* the call raised at the second tensor of args
C30_RaiseWitness ==
    /\ op \in {"broadcast_args", "apply_mask_args"} /\ pc = "error"
    /\ Len(targets.args) = 2 /\ Len(targets.axes) = 2
    /\ OnTarget(op, a, targets.args[1], targets.axes[1]).kind = "tensor"
    /\ targets.results = <<>>

====
